---- MODULE Spec2Model ----
(***************************************************************************)
(* A model of the workflow engine of src/engine/processus.js: the task     *)
(* tree, validation, the scheduler passes of realExecute, the handler      *)
(* callback of executeTask, the three save points and the injection merge  *)
(* of updateTasks; and of the file store of                                *)
(* src/engine/persistence/file.js: the current record of an instance and   *)
(* its historical records.                                                 *)
(*                                                                         *)
(* JavaScript values are written as strings: "undefined" is an absent      *)
(* property, "true"/"false" are the booleans, "'true'" and "'no'" are the  *)
(* strings 'true' and 'no', "1" and "0" are numbers.  A tasks mapping is a *)
(* sequence of task records in insertion order; the key of a task is its   *)
(* field name.  A task is addressed by its path, the sequence of indices   *)
(* that leads to it from the top-level mapping.                            *)
(***************************************************************************)
EXTENDS Integers, Sequences, FiniteSets, TLC

VARIABLES
  caller,    \* what execute has written into the object the caller passed: [environment]
  wf,        \* the live instance object: [status, tasks, environment, id, pre, post]
  pc,        \* where the engine is: "start", "pre", "saveA", "batch", "saveB", "saveC",
             \* "post", "returned"
             \* ("store" under StoreSpec, "merge" and "merged" under MergeSpec)
  pending,   \* paths of the tasks whose handler was started and has not reported
  ret,       \* what the completion callback received last: [err, inst]
  store,     \* the persistence store as the engine sees it (see NoStore)
  dir,       \* the data directory of the file backend (see NoDir), driven by StoreSpec
  injected,  \* the bundle that MergeSpec has merged into the stored instance
  procEnv,   \* process.env of the process that makes the next call
  callbacks, \* number of times a completion callback was invoked
  pass,      \* record of the last scheduler pass (see NoPass)
  fresh,     \* TRUE in the state right after the completion callback was invoked
  resumed,   \* paths of the paused tasks the last update injected as executing
  updates,   \* number of update calls made so far
  ran        \* the tasks of the main tree whose handler was started and the call
             \* that started it, less the tasks an update has injected since

vars == <<caller, wf, pc, pending, ret, store, dir, injected, procEnv, callbacks, pass, fresh, resumed, updates, ran>>

(* Bounds of the model. *)
MaxTasks == 2
MaxUpdates == 1
MaxSaves == 3
MaxClock == 3

Undef == "undefined"

Names == <<"a", "b", "c", "d">>

LegalStatus == {"waiting", "open", "executing", "paused", "completed", "error"}

(* timeOpened, timeStarted and timeCompleted of a task that has none. *)
NoTime == -1

(* Date.now(). *)
Now == dir.clock

(***************************************************************************)
(* The task tree.                                                          *)
(***************************************************************************)

(* task.tasks as scanAllTasks sees it: nothing to scan when absent. *)
Children(t) == IF t.hasTasks THEN t.tasks ELSE <<>>

(* scanAllTasks(tasks, deep = true, cb) with a callback that never stops   *)
(* the scan: the paths of the tasks visited, in visiting order.            *)
RECURSIVE ScanFrom(_, _, _)
ScanFrom(tasks, i, prefix) ==
  IF i > Len(tasks) THEN <<>>
  ELSE <<prefix \o <<i>>>>
       \o ScanFrom(Children(tasks[i]), 1, prefix \o <<i>>)
       \o ScanFrom(tasks, i + 1, prefix)

scanAllTasks(tasks) == ScanFrom(tasks, 1, <<>>)

RECURSIVE TaskAt(_, _)
TaskAt(tasks, p) ==
  IF Len(p) = 1 THEN tasks[p[1]] ELSE TaskAt(tasks[p[1]].tasks, Tail(p))

RECURSIVE SetAt(_, _, _)
SetAt(tasks, p, t) ==
  IF Len(p) = 1 THEN [tasks EXCEPT ![p[1]] = t]
  ELSE [tasks EXCEPT ![p[1]] = [@ EXCEPT !.tasks = SetAt(@, Tail(p), t)]]

Range(s) == {s[i] : i \in 1..Len(s)}

Paths(tasks) == Range(scanAllTasks(tasks))

(* p is a proper prefix of q: the task at q is a descendant of the one at p *)
IsDescendant(q, p) == Len(q) > Len(p) /\ SubSeq(q, 1, Len(p)) = p

(***************************************************************************)
(* Coercions and status queries.                                           *)
(***************************************************************************)

(* getBoolean: booleans as they are, strings by comparison of their lower  *)
(* case with 'true', numbers by comparison with 0, anything else false.    *)
getBoolean(v) ==
  CASE v = "true" -> TRUE
    [] v = "false" -> FALSE
    [] v = "'true'" -> TRUE
    [] v = "'no'" -> FALSE
    [] v = "1" -> TRUE
    [] v = "0" -> FALSE
    [] OTHER -> FALSE

JsBool(b) == IF b THEN "true" ELSE "false"

isBlocking(task) == getBoolean(task.blocking)

setConditionValues(task) ==
  [task EXCEPT
     !.skipIf = IF @ # Undef THEN JsBool(getBoolean(@)) ELSE @,
     !.errorIf = IF @ # Undef THEN JsBool(getBoolean(@)) ELSE @]

(* The scan of childHasStatus: matchStatus is the comparison made at the   *)
(* task where the scan stopped, or at the last task when it never stopped. *)
RECURSIVE ChildScan(_, _, _, _, _)
ChildScan(tasks, sc, i, status, all) ==
  LET matchStatus == TaskAt(tasks, sc[i]).status = status IN
  IF matchStatus /\ ~all THEN matchStatus
  ELSE IF ~matchStatus /\ all THEN matchStatus
  ELSE IF i = Len(sc) THEN matchStatus
  ELSE ChildScan(tasks, sc, i + 1, status, all)

(* childHasStatus with the all flag dropped: one matching descendant is    *)
(* enough.                                                                 *)
childHasStatusAny(tasks, status, all) ==
  IF Len(tasks) = 0 THEN FALSE
  ELSE ChildScan(tasks, scanAllTasks(tasks), 1, status, FALSE)

(* childHasStatus(parent, status, all), given Children(parent). *)
childHasStatus(tasks, status, all) ==
  IF Len(tasks) = 0 THEN FALSE
  ELSE ChildScan(tasks, scanAllTasks(tasks), 1, status, all)

(* The object getTasksByStatus builds: assigning an existing key replaces  *)
(* its value and keeps its position.  Entries are [name, path].            *)
PutKey(obj, name, p) ==
  IF \E k \in 1..Len(obj) : obj[k].name = name
  THEN [k \in 1..Len(obj) |->
          IF obj[k].name = name THEN [name |-> name, path |-> p] ELSE obj[k]]
  ELSE Append(obj, [name |-> name, path |-> p])

RECURSIVE ByStatus(_, _, _, _, _)
ByStatus(tasks, sc, i, status, obj) ==
  IF i > Len(sc) THEN obj
  ELSE LET t == TaskAt(tasks, sc[i]) IN
       ByStatus(tasks, sc, i + 1, status,
                IF t.status = status THEN PutKey(obj, t.name, sc[i]) ELSE obj)

(* getTasksByStatus scanning the top level only (deep = false). *)
getTasksByStatusShallow(tasks, status) ==
  ByStatus(tasks, [i \in 1..Len(tasks) |-> <<i>>], 1, status, <<>>)

getTasksByStatus(tasks, status) ==
  ByStatus(tasks, scanAllTasks(tasks), 1, status, <<>>)

(***************************************************************************)
(* Validation.                                                             *)
(***************************************************************************)

(* The visitor of setTaskStatusWaiting applied to every task of a mapping. *)
RECURSIVE WaitingAll(_)
WaitingAll(tasks) ==
  [i \in 1..Len(tasks) |->
     [tasks[i] EXCEPT
        !.status = IF @ = Undef THEN "waiting" ELSE @,
        !.tasks = WaitingAll(@)]]

(* setTaskStatusWaiting on the clone: the instance status is reset to open *)
(* and an absent tasks mapping becomes the empty mapping.                  *)
setTaskStatusWaiting(inst) ==
  [inst EXCEPT !.status = "open", !.tasks = WaitingAll(@)]

(* validateWorkflow: the JSON clone drops nothing the model keeps; an      *)
(* instance without id is given a new one.                                 *)
validateWorkflow(inst) ==
  [setTaskStatusWaiting(inst) EXCEPT !.id = IF @ = Undef THEN "uuid" ELSE @]

(* addEnvVars writes the process environment into the object it is given.  *)
addEnvVars(workflow) == [workflow EXCEPT !.environment = procEnv]

(***************************************************************************)
(* References.                                                             *)
(*                                                                         *)
(* A value of a parameter is [t, s]: its type and String(value), a         *)
(* sequence of characters.  In a string of a definition a whole reference  *)
(* $[path] is one element of the sequence.  BACKSLASH, QUOTE, APOS and BS  *)
(* are the characters \, ", ' and backspace (U+0008).  The parameters of a *)
(* task are <<>> when absent, else <<[x, log]>>: x is what a handler can    *)
(* write, log is the field that can hold references.                       *)
(***************************************************************************)

JsString(s) == [t |-> "string", s |-> s]

JsNumber == [t |-> "number", s |-> <<"7">>]

JsNull == [t |-> "null", s |-> <<"n", "u", "l", "l">>]

JsUndefined == [t |-> "undefined", s |-> <<>>]

Given == <<[x |-> JsUndefined, log |-> JsUndefined]>>

RefX == "$[tasks.a.parameters.x]"

RefHome == "$[environment.HOME]"

RefNone == "$[tasks.a.parameters.none]"

(* What the pattern of setTaskDataValues matches. *)
Refs == {RefX, RefHome, RefNone}

(* process.env.HOME in the two environments. *)
Home(env) == IF env = "env" THEN <<"/", "t", "m", "p">> ELSE <<"/", "h">>

(* getData: the walk along the segments of the path; undefined when a      *)
(* segment is missing.                                                     *)
getData(workflow, ref) ==
  IF ref = RefHome
  THEN IF workflow.environment = Undef THEN JsUndefined
       ELSE JsString(Home(workflow.environment))
  ELSE
    LET hits == {i \in 1..Len(workflow.tasks) : workflow.tasks[i].name = "a"} IN
    IF hits = {} THEN JsUndefined
    ELSE LET a == workflow.tasks[CHOOSE i \in hits : TRUE] IN
         IF a.parameters = <<>> \/ ref # RefX THEN JsUndefined
         ELSE a.parameters[1].x

(* \w of the regular expressions of JavaScript. *)
WordChar(c) ==
  c \in {"a", "b", "h", "k", "l", "m", "n", "o", "p", "t", "u", "v", "7"}

(* s.replace(/c/g, to) for a character c. *)
RECURSIVE ReplaceAll(_, _, _)
ReplaceAll(s, c, to) ==
  IF s = <<>> THEN <<>>
  ELSE (IF Head(s) = c THEN to ELSE <<Head(s)>>) \o ReplaceAll(Tail(s), c, to)

(* s.replace(/\b/g, to): \b outside a character class is the word         *)
(* boundary, so to is inserted wherever a word character meets the start,  *)
(* the end or a character that is not one.  i runs over the positions      *)
(* 0..Len(s) between the characters.                                       *)
RECURSIVE ReplaceWordBoundaries(_, _, _)
ReplaceWordBoundaries(s, to, i) ==
  IF i > Len(s) THEN <<>>
  ELSE
    LET left == i >= 1 /\ WordChar(s[i])
        right == i < Len(s) /\ WordChar(s[i + 1])
    IN (IF left # right THEN to ELSE <<>>)
       \o (IF i < Len(s) THEN <<s[i + 1]>> ELSE <<>>)
       \o ReplaceWordBoundaries(s, to, i + 1)

(* The chain of replacements setTaskDataValues applies to a resolved       *)
(* string (those for \f, \n, \r and \t find nothing in the strings of the *)
(* model).                                                                 *)
Escaped(s) ==
  LET s1 == ReplaceAll(s, "BACKSLASH", <<"BACKSLASH", "BACKSLASH">>)
      s2 == ReplaceAll(s1, "/", <<"BACKSLASH", "/">>)
      s3 == ReplaceWordBoundaries(s2, <<"BACKSLASH", "b">>, 0)
      s4 == ReplaceAll(s3, "QUOTE", <<"BACKSLASH", "QUOTE">>)
  IN ReplaceAll(s4, "APOS", <<"BACKSLASH", "APOS">>)

(* JSON.parse of the inside of a string literal: [ok, s].  \\, \/, \" and  *)
(* \b are escapes of JSON, \' is not one; a bare quote or control          *)
(* character is a syntax error.                                            *)
RECURSIVE JsonParse(_)
JsonParse(text) ==
  IF text = <<>> THEN [ok |-> TRUE, s |-> <<>>]
  ELSE IF Head(text) \in {"QUOTE", "BS"} THEN [ok |-> FALSE, s |-> <<>>]
  ELSE IF Head(text) = "BACKSLASH"
  THEN IF Len(text) < 2 \/ text[2] \notin {"BACKSLASH", "/", "QUOTE", "b"}
       THEN [ok |-> FALSE, s |-> <<>>]
       ELSE LET rest == JsonParse(Tail(Tail(text))) IN
            [ok |-> rest.ok,
             s |-> <<IF text[2] = "b" THEN "BS" ELSE text[2]>> \o rest.s]
  ELSE LET rest == JsonParse(Tail(text)) IN
       [ok |-> rest.ok, s |-> <<Head(text)>> \o rest.s]

(* JSON.stringify of a string of the model, without the quotes around it.  *)
JsonStringify(s) ==
  ReplaceAll(ReplaceAll(ReplaceAll(s, "BACKSLASH", <<"BACKSLASH", "BACKSLASH">>),
                        "QUOTE", <<"BACKSLASH", "QUOTE">>),
             "BS", <<"BACKSLASH", "b">>)

(* The loop of setTaskDataValues over the references of one string value,  *)
(* on the JSON text of the value: text is the inside of the string         *)
(* literal, and the quoted reference is found when the text is that one    *)
(* reference and nothing else.  The result is [native, value, text]: a     *)
(* value of another type that has replaced the quoted reference, or the    *)
(* text to parse.                                                          *)
RECURSIVE Substitute(_, _)
Substitute(workflow, text) ==
  LET at == {i \in 1..Len(text) : text[i] \in Refs} IN
  IF at = {} THEN [native |-> FALSE, value |-> JsUndefined, text |-> text]
  ELSE
    LET k == CHOOSE i \in at : \A j \in at : i <= j
        found == getData(workflow, text[k])
        dataValue == IF found.t = "undefined" THEN JsNull ELSE found
        splice(to) == SubSeq(text, 1, k - 1) \o to \o SubSeq(text, k + 1, Len(text))
    IN IF dataValue.t = "string" THEN Substitute(workflow, splice(Escaped(dataValue.s)))
       ELSE IF Len(text) = 1 THEN [native |-> TRUE, value |-> dataValue, text |-> <<>>]
       ELSE Substitute(workflow, splice(dataValue.s))

(* setTaskDataValues on one value: a value without reference is left as it *)
(* is; otherwise the text after the substitutions is parsed, and the value *)
(* is kept as it was when the text does not parse.                         *)
Expanded(workflow, value) ==
  IF value.t # "string" \/ \A i \in 1..Len(value.s) : value.s[i] \notin Refs
  THEN value
  ELSE
    LET sub == Substitute(workflow, JsonStringify(value.s))
        parsed == JsonParse(sub.text)
    IN IF sub.native THEN sub.value
       ELSE IF parsed.ok THEN JsString(parsed.s)
       ELSE value

(* setTaskDataValues: of the properties of a task, the model has           *)
(* references in parameters.log only.                                      *)
setTaskDataValues(workflow, task) ==
  IF task.parameters = <<>> THEN task
  ELSE [task EXCEPT !.parameters = <<[@[1] EXCEPT !.log = Expanded(workflow, @)]>>]

(***************************************************************************)
(* Opening.                                                                *)
(***************************************************************************)

(* openTasks(tasks): the scan of one mapping from its i-th task on; the    *)
(* visitor's return value !isBlocking(task) stops the scan of the level.   *)
RECURSIVE OpenFrom(_, _)
OpenFrom(tasks, i) ==
  IF i > Len(tasks) THEN tasks
  ELSE
    LET t == tasks[i] IN
    IF t.status = "open" THEN
      LET t2 == IF childHasStatus(Children(t), "waiting", FALSE)
                THEN [t EXCEPT !.tasks = OpenFrom(@, 1)] ELSE t
          tasks2 == [tasks EXCEPT ![i] = t2]
      IN IF isBlocking(t) THEN tasks2 ELSE OpenFrom(tasks2, i + 1)
    ELSE IF t.status = "waiting" THEN
      LET t2 == [t EXCEPT !.status = "open",
                          !.timeOpened = Now,
                          !.tasks = IF t.hasTasks THEN OpenFrom(@, 1) ELSE @]
          tasks2 == [tasks EXCEPT ![i] = t2]
      IN IF isBlocking(t) THEN tasks2 ELSE OpenFrom(tasks2, i + 1)
    ELSE OpenFrom(tasks, i + 1)

(* openTasks with the blocking test made before the children are visited:  *)
(* a blocking task is opened and the scan ends without a visit to its own  *)
(* children.                                                               *)
RECURSIVE OpenFromBlockingFirst(_, _)
OpenFromBlockingFirst(tasks, i) ==
  IF i > Len(tasks) THEN tasks
  ELSE
    LET t == tasks[i] IN
    IF t.status \in {"open", "waiting"} THEN
      LET descend == IF t.status = "open"
                     THEN childHasStatus(Children(t), "waiting", FALSE)
                     ELSE t.hasTasks
          t2 == [t EXCEPT !.status = "open",
                          !.timeOpened = IF t.status = "waiting" THEN Now ELSE @,
                          !.tasks = IF descend /\ ~isBlocking(t)
                                    THEN OpenFromBlockingFirst(@, 1) ELSE @]
          tasks2 == [tasks EXCEPT ![i] = t2]
      IN IF isBlocking(t) THEN tasks2 ELSE OpenFromBlockingFirst(tasks2, i + 1)
    ELSE OpenFromBlockingFirst(tasks, i + 1)

openTasksBlockingFirst(tasks) == OpenFromBlockingFirst(tasks, 1)

openTasks(tasks) == OpenFrom(tasks, 1)

(* openNextAvailableTask: workflow.tasks is never absent after validation. *)
openNextAvailableTask(inst) == [inst EXCEPT !.tasks = openTasks(@)]

(***************************************************************************)
(* Collecting and dispatching the runnable tasks of a pass.                *)
(***************************************************************************)

(* The loop of realExecute over the open tasks: a task without a tasks     *)
(* property, or one whose descendants are all completed, has its gates     *)
(* coerced, becomes executing and is queued.  An empty tasks mapping is a  *)
(* truthy object, so such a task takes the second branch.                  *)
(* The test without the look at the children: every open task is run. *)
RunnableOpen(t) == t.status = "open"

(* The two tests of the loop on one open task. *)
Runnable(t) ==
  \/ t.status = "open" /\ ~t.hasTasks
  \/ t.status = "open" /\ t.hasTasks
     /\ childHasStatus(Children(t), "completed", TRUE)

RECURSIVE Enqueue(_, _, _, _)
Enqueue(tasks, obj, i, queue) ==
  IF i > Len(obj) THEN [tasks |-> tasks, queue |-> queue]
  ELSE
    LET p == obj[i].path
        t == TaskAt(tasks, p)
    IN IF Runnable(t)
       THEN Enqueue(SetAt(tasks, p,
                          [setConditionValues(
                             setTaskDataValues([wf EXCEPT !.tasks = tasks], t))
                           EXCEPT !.status = "executing"]),
                    obj, i + 1, Append(queue, p))
       ELSE Enqueue(tasks, obj, i + 1, queue)

(* The test of executeTask that decides whether the handler is loaded.     *)
Skip(task) ==
  task.skipIf = "true" \/ task.errorIf = "true" \/ task.handler = Undef

(* The skip branch handing the task back to the scheduler as open. *)
SkipTaskReopens(task) == [task EXCEPT !.handlerExecuted = "false", !.status = "open"]

(* The branch of executeTask that runs no handler: it ends synchronously.  *)
SkipTask(task) ==
  LET t1 == [task EXCEPT !.handlerExecuted = "false"]
      t2 == IF t1.errorIf = "true"
            THEN [t1 EXCEPT !.errorMsg = "msg", !.status = "error"] ELSE t1
  IN IF t2.status = "executing"
     THEN [t2 EXCEPT !.status = "completed", !.timeCompleted = Now] ELSE t2

(* asyncLib.parallel calling every queued function in turn: a skipped task *)
(* reports at once, the others are left waiting for their module to load.  *)
(* failed: some task has already reported an error to the final callback.  *)
(* executeTask stamps timeStarted before anything else.                    *)
RECURSIVE RunQueue(_, _, _, _, _)
RunQueue(tasks, queue, i, started, failed) ==
  IF i > Len(queue) THEN [tasks |-> tasks, started |-> started, failed |-> failed]
  ELSE
    LET p == queue[i]
        t == [TaskAt(tasks, p) EXCEPT !.timeStarted = Now]
    IN IF Skip(t)
       THEN RunQueue(SetAt(tasks, p, SkipTask(t)), queue, i + 1, started,
                     failed \/ t.errorIf = "true")
       ELSE RunQueue(SetAt(tasks, p, [t EXCEPT !.handlerExecuted = "true"]),
                     queue, i + 1, started \cup {p}, failed)

(* What the handler "w" can write into parameters.x of its task before it  *)
(* reports success: a number, a string, a string with an apostrophe.       *)
WriteOutcomes == {"number", "string", "apostrophe"}

(* What a started handler can do: the import of a module that cannot be   *)
(* loaded throws ("loadfail"); a loaded handler reports success ("ok"),   *)
(* reports an error ("err"), or sets the task paused and reports success   *)
(* ("paused"); the handler "w" writes into its task and reports success.   *)
Outcomes(task) ==
  IF task.handler = "missing" THEN {"loadfail"}
  ELSE IF task.handler = "w" THEN WriteOutcomes
  ELSE {"ok", "err", "paused"}

(* The task object as the handler hands it back. *)
Written(task, outcome) ==
  IF outcome \notin WriteOutcomes \/ task.parameters = <<>> THEN task
  ELSE [task EXCEPT !.parameters =
          <<[@[1] EXCEPT !.x = IF outcome = "number" THEN JsNumber
                               ELSE IF outcome = "string" THEN JsString(<<"o", "k">>)
                               ELSE JsString(<<"o", "APOS", "k">>)]>>]

(* The callback without the ignoreError test: a reported error always      *)
(* leaves the task in error.                                               *)
HandlerDoneNoIgnore(task, outcome) ==
  IF outcome \in {"loadfail", "err"}
  THEN [task EXCEPT !.errorMsg = "msg", !.status = "error"]
  ELSE IF outcome = "paused" THEN [task EXCEPT !.status = "paused"]
  ELSE [task EXCEPT !.status = "completed", !.timeCompleted = Now]

(* The callback without the completion of the task: after a success the   *)
(* task is left open.                                                      *)
HandlerDoneStaysOpen(task, outcome) ==
  IF outcome = "ok" THEN [task EXCEPT !.status = "open"]
  ELSE HandlerDoneNoIgnore(task, outcome)

(* The task after the callback executeTask hands to the handler has run,   *)
(* or after the catch of a failed import.                                  *)
HandlerDone(task, outcome) ==
  IF outcome = "loadfail"
  THEN [task EXCEPT !.errorMsg = "msg", !.status = "error"]
  ELSE
    LET t0 == IF outcome = "paused" THEN [task EXCEPT !.status = "paused"]
              ELSE Written(task, outcome)
        t1 == IF outcome = "err"
              THEN [t0 EXCEPT !.errorMsg = "msg",
                              !.status = IF t0.ignoreError = "true"
                                         THEN "executing" ELSE "error"]
              ELSE t0
    IN IF t1.status = "executing"
       THEN [t1 EXCEPT !.status = "completed", !.timeCompleted = Now] ELSE t1

(* The callback handing on null instead of the handler's error. *)
HandlerErrDropped(task, outcome) == outcome = "loadfail"

(* The error handed to the callback of the queued function. *)
HandlerErr(task, outcome) ==
  \/ outcome = "loadfail"
  \/ outcome = "err" /\ task.ignoreError # "true"

(***************************************************************************)
(* Injection.                                                              *)
(***************************************************************************)

(* A scan that goes on after a match: the last task of that name. *)
RECURSIVE LastNamed(_, _, _, _)
LastNamed(tasks, sc, i, name) ==
  IF i > Len(sc) THEN <<>>
  ELSE LET later == LastNamed(tasks, sc, i + 1, name) IN
       IF later # <<>> THEN later
       ELSE IF TaskAt(tasks, sc[i]).name = name THEN sc[i] ELSE <<>>

(* The scan of mergeTasks for one name: the first task of that name in     *)
(* scan order, <<>> when no task has it.                                   *)
RECURSIVE FirstNamed(_, _, _, _)
FirstNamed(tasks, sc, i, name) ==
  IF i > Len(sc) THEN <<>>
  ELSE IF TaskAt(tasks, sc[i]).name = name THEN sc[i]
  ELSE FirstNamed(tasks, sc, i + 1, name)

(* mergeTask: parameters, status, the gates and the child mapping are      *)
(* replaced by the bundle's, absent ones included.                         *)
mergeTask(originalTask, newTask) ==
  [originalTask EXCEPT
     !.parameters = newTask.parameters,
     !.status = newTask.status,
     !.errorIf = newTask.errorIf,
     !.skipIf = newTask.skipIf,
     !.hasTasks = newTask.hasTasks,
     !.tasks = newTask.tasks,
     !.timeCompleted = Now]

(* mergeTasks over the entries [name, task] of the bundle, in key order. *)
RECURSIVE MergeFrom(_, _, _)
MergeFrom(tasks, bundle, i) ==
  IF i > Len(bundle) THEN tasks
  ELSE
    LET p == FirstNamed(tasks, scanAllTasks(tasks), 1, bundle[i].name) IN
    MergeFrom(IF p = <<>> THEN tasks
              ELSE SetAt(tasks, p, mergeTask(TaskAt(tasks, p), bundle[i].task)),
              bundle, i + 1)

mergeTasks(inst, bundle) == [inst EXCEPT !.tasks = MergeFrom(@, bundle, 1)]

(* The paused tasks that a bundle finds by name and for which it carries   *)
(* the status executing: the tasks the update resumes.                     *)
Resumed(tasks, bundle) ==
  { p \in Paths(tasks) :
      /\ TaskAt(tasks, p).status = "paused"
      /\ \E i \in 1..Len(bundle) :
           /\ FirstNamed(tasks, scanAllTasks(tasks), 1, bundle[i].name) = p
           /\ bundle[i].task.status = "executing" }

(* A bundle injects the tasks it finds by name, and with each of them the  *)
(* child mapping it carries for it.                                        *)
Injects(tasks, bundle, q) ==
  \E i \in 1..Len(bundle) :
    LET p == FirstNamed(tasks, scanAllTasks(tasks), 1, bundle[i].name) IN
    /\ p # <<>>
    /\ Len(p) <= Len(q)
    /\ SubSeq(q, 1, Len(p)) = p

(***************************************************************************)
(* The instances and bundles the caller can pass in.                       *)
(***************************************************************************)

NewTask(name, status, handler, skipIf, errorIf, ignoreError, blocking, hasTasks, tasks) ==
  [name |-> name, status |-> status, handler |-> handler, skipIf |-> skipIf,
   errorIf |-> errorIf, ignoreError |-> ignoreError, blocking |-> blocking,
   hasTasks |-> hasTasks, tasks |-> tasks, parameters |-> Given,
   handlerExecuted |-> Undef, errorMsg |-> Undef,
   timeOpened |-> NoTime, timeStarted |-> NoTime, timeCompleted |-> NoTime]

(* What a definition can say of one task, children apart.  empty: a leaf   *)
(* written with tasks: {}.                                                 *)
Profile(status, handler, skipIf, errorIf, ignoreError, blocking, empty) ==
  [status |-> status, handler |-> handler, skipIf |-> skipIf, errorIf |-> errorIf,
   ignoreError |-> ignoreError, blocking |-> blocking, empty |-> empty]

Plain == Profile(Undef, "h", Undef, Undef, Undef, Undef, FALSE)

Blocking == Profile(Undef, "h", Undef, Undef, Undef, "true", FALSE)

Container == Profile(Undef, Undef, Undef, Undef, Undef, Undef, FALSE)

(* Tasks that differ in how the tree is walked. *)
StructProfiles == {Plain, Blocking, Container}

(* Tasks that differ in their gates. *)
GateProfiles ==
  { Profile(Undef, h, s, e, g, Undef, FALSE) :
      h \in {Undef, "h"}, s \in {Undef, "true", "false", "'true'"},
      e \in {Undef, "true", "'true'", "0"}, g \in {Undef, "true"} }

(* Tasks that arrive with a status. *)
StatusProfiles ==
  { Profile(st, "h", Undef, Undef, Undef, b, FALSE) :
      st \in LegalStatus \cup {"bogus"}, b \in {Undef, "true"} }

(* A blocking task without handler, a leaf written with tasks: {}, tasks   *)
(* whose handler names a module that cannot be loaded, and a leaf written  *)
(* with tasks: {} and errorIf: true.                                       *)
OtherProfiles ==
  { Profile(Undef, Undef, Undef, Undef, Undef, "true", FALSE),
    Profile(Undef, "h", Undef, Undef, Undef, Undef, TRUE),
    Profile(Undef, "missing", Undef, Undef, Undef, Undef, FALSE),
    Profile(Undef, "missing", Undef, Undef, "true", Undef, FALSE),
    Profile(Undef, "h", Undef, "true", Undef, Undef, TRUE) }

(* Trees over the tasks 1..n numbered in scan order: par[i] is the parent  *)
(* of i, 0 for a top-level task.                                           *)
RECURSIVE AncOrSelf(_, _)
AncOrSelf(par, k) == IF k = 0 THEN {0} ELSE {k} \cup AncOrSelf(par, par[k])

ParentVecs(n) ==
  { par \in [1..n -> 0..(n - 1)] :
      \A i \in 1..n : par[i] < i /\ (i > 1 => par[i] \in AncOrSelf(par, i - 1)) }

SetMax(S) == CHOOSE x \in S : \A y \in S : y <= x

(* Names by index into Names: unique among siblings; up to renaming, so a  *)
(* task takes a name already used or the first unused one.                 *)
NameVecs(n, par) ==
  { nm \in [1..n -> 1..n] :
      /\ nm[1] = 1
      /\ \A i \in 2..n : nm[i] <= SetMax({nm[j] : j \in 1..(i - 1)}) + 1
      /\ \A i, j \in 1..n : (i < j /\ par[i] = par[j]) => nm[i] # nm[j] }

Distinct(n) == [i \in 1..n |-> i]

RECURSIVE Build(_, _, _, _, _, _)
Build(n, par, nm, prof, k, i) ==
  IF i > n THEN <<>>
  ELSE IF par[i] # k THEN Build(n, par, nm, prof, k, i + 1)
  ELSE
    LET kids == Build(n, par, nm, prof, i, i + 1)
        q == prof[i]
    IN <<NewTask(Names[nm[i]], q.status, q.handler, q.skipIf, q.errorIf,
                 q.ignoreError, q.blocking, kids # <<>> \/ q.empty, kids)>>
       \o Build(n, par, nm, prof, k, i + 1)

(* The definitions executed, of up to MaxTasks tasks:                      *)
(*  - tasks of distinct names that differ in structure;                    *)
(*  - plain tasks, some of which share a name;                             *)
(*  - tasks of distinct names, the first or the last of which in scan      *)
(*    order has an inbound status or another profile, or has gates (in a   *)
(*    tree of MaxTasks tasks only when all are top-level), the others      *)
(*    being plain.                                                         *)
Variants(n, par) ==
  { [nm |-> Distinct(n), prof |-> prof] : prof \in [1..n -> StructProfiles] }
  \cup { [nm |-> nm, prof |-> [i \in 1..n |-> Plain]] : nm \in NameVecs(n, par) }
  \cup { [nm |-> Distinct(n), prof |-> [i \in 1..n |-> IF i = k THEN q ELSE Plain]] :
           k \in {1, n},
           q \in StatusProfiles \cup OtherProfiles
                 \cup (IF n < MaxTasks \/ \A i \in 1..n : par[i] = 0
                       THEN GateProfiles ELSE {}) }

Generated ==
  { <<>> } \cup
  UNION { UNION { { Build(n, par, v.nm, v.prof, 0, 1) : v \in Variants(n, par) } :
                  par \in ParentVecs(n) } :
          n \in 1..MaxTasks }

Tree(par, nm, prof) == Build(Len(par), par, nm, prof, 0, 1)

(* Larger definitions: a parent with two children (scenario 4 of the       *)
(* spec); a blocking parent whose second child of three is blocking; a     *)
(* container whose child has the name of a top-level task; two containers  *)
(* whose children have the same name.                                      *)
Scenarios ==
  { Tree(<<0, 1, 1>>, <<1, 2, 3>>, <<Container, Plain, Plain>>),
    Tree(<<0, 1, 1, 1>>, <<1, 2, 3, 4>>, <<Blocking, Plain, Blocking, Plain>>),
    Tree(<<0, 0, 2>>, <<1, 2, 1>>, <<Plain, Container, Plain>>),
    Tree(<<0, 1, 0, 3>>, <<1, 3, 2, 3>>, <<Container, Plain, Container, Plain>>) }

Definitions == Generated \cup Scenarios

(* What an update can inject for one task: no parameters, no gates, and a  *)
(* status or none without child mapping, or completed with a mapping of    *)
(* one plain child.                                                        *)
BundleTask(status, kids) ==
  [parameters |-> <<>>, status |-> status, skipIf |-> Undef, errorIf |-> Undef,
   hasTasks |-> kids # <<>>, tasks |-> kids]

BundleTasks ==
  { BundleTask(st, <<>>) : st \in {Undef, "executing", "completed"} }
  \cup { BundleTask("completed",
           <<NewTask(Names[1], Undef, "h", Undef, Undef, Undef, Undef, FALSE, <<>>)>>) }

NamesIn(tasks) == {TaskAt(tasks, p).name : p \in Paths(tasks)}

(* Bundles of at most one entry: for a name of the tree, or the name "zz"  *)
(* that no task has.                                                       *)
Bundles(inst) ==
  { <<>>, <<[name |-> "zz", task |-> BundleTask("completed", <<>>)]>> } \cup
  { <<[name |-> nm, task |-> t]>> : nm \in NamesIn(inst.tasks), t \in BundleTasks }

(***************************************************************************)
(* The engine.                                                             *)
(***************************************************************************)

(* The pre workflow or post workflow task of a definition, <<>> when the   *)
(* definition has none: a handler and no gates.                            *)
Hook == <<NewTask("hook", Undef, "h", Undef, Undef, Undef, Undef, FALSE, <<>>)>>

(* executePrePost up to the call of the handler: a task that is there is   *)
(* set to executing and handed to executeTask.                             *)
executePrePost(hook) ==
  IF hook = <<>> THEN hook
  ELSE <<[hook[1] EXCEPT !.status = "executing", !.handlerExecuted = "true",
                         !.timeOpened = Now, !.timeStarted = Now]>>

(* The record of a pass: the tasks when the pass started, after opening    *)
(* and after the queue was built; the queue; the tasks whose handler was   *)
(* invoked and those whose handler reported an error; the number of saves  *)
(* made when the pass had saved; the reports of the batch, each the path   *)
(* of a task with what its handler did.                                    *)
NoPass == [paused |-> FALSE, before |-> <<>>, opened |-> <<>>, queued |-> <<>>,
           queue |-> <<>>, invoked |-> {}, errs |-> {}, saves |-> 0,
           reported |-> {}]

NoInstance ==
  [status |-> Undef, tasks |-> <<>>, environment |-> Undef, id |-> Undef,
   pre |-> <<>>, post |-> <<>>]

(***************************************************************************)
(* The store as the engine sees it through src/engine/persistence/store.js *)
(* whatever the backend: the record loadInstance(id, 0) returns.           *)
(***************************************************************************)

(* saved: the id has a current record; cur: that record; n: the number of  *)
(* saveInstance calls that succeeded.                                      *)
NoStore == [saved |-> FALSE, cur |-> NoInstance, n |-> 0]

(* store.saveInstance succeeding: the instance becomes the current record. *)
saveInstance(st, inst) == [saved |-> TRUE, cur |-> inst, n |-> st.n + 1]

(* store.loadInstance(id, 0) as updateTasks calls it: [err, inst]. *)
loadCurrent(st) ==
  IF st.saved THEN [err |-> FALSE, inst |-> st.cur]
  ELSE [err |-> TRUE, inst |-> NoInstance]

(***************************************************************************)
(* The file backend, src/engine/persistence/file.js, for one id.           *)
(***************************************************************************)

(* exists: the current file <id> exists; current: its content; files: the  *)
(* historical files <id>_<timestamp> in the order glob and sort list them, *)
(* each [ts, data]; clock: the last value of Date.now().  log is not in    *)
(* the directory: what each successful saveInstance wrote, in order.       *)
NoDir ==
  [exists |-> FALSE, current |-> NoInstance, files |-> <<>>, clock |-> 0,
   log |-> <<>>]

(* fs.rename(current, <id>_<now>): a file of that name is replaced.  The   *)
(* clock never runs backwards, so the new name sorts last.                 *)
Archive(files, now, data) ==
  Append(SelectSeq(files, LAMBDA f : f.ts # now), [ts |-> now, data |-> data])

(* saveInstance of file.js succeeding at time now: an existing current     *)
(* file is renamed to a historical file, then the instance is written as   *)
(* the current file.                                                       *)
fileSaveInstance(d, workflow, now) ==
  [exists |-> TRUE,
   current |-> workflow,
   files |-> IF d.exists THEN Archive(d.files, now, d.current) ELSE d.files,
   clock |-> now,
   log |-> Append(d.log, workflow)]

(* loadInstance of file.js: [err, inst].  The current file is read unless  *)
(* there are historical files and rewind > 0; a rewind beyond the history  *)
(* is cut to its length; reading a file that does not exist is an error.   *)
fileLoadInstance(d, rewind) ==
  LET files == d.files
      rw == IF rewind > Len(files) THEN Len(files) ELSE rewind
      index == Len(files) - rw
  IN IF Len(files) > 0 /\ rewind > 0
     THEN [err |-> FALSE, inst |-> files[(IF index >= 0 THEN index ELSE 0) + 1].data]
     ELSE IF d.exists THEN [err |-> FALSE, inst |-> d.current]
     ELSE [err |-> TRUE, inst |-> NoInstance]

(* Date.now() at a save: the millisecond of the save before, or a later    *)
(* one.                                                                    *)
Nows(d) == {d.clock, d.clock + 1}

(* The caller holds a definition; nothing has been executed or stored.     *)
Init ==
  /\ wf \in { [NoInstance EXCEPT !.tasks = d] : d \in Definitions }
  /\ caller = [environment |-> wf.environment]
  /\ pc = "start"
  /\ pending = {}
  /\ ret = [err |-> "none", inst |-> FALSE]
  /\ store = NoStore
  /\ dir = NoDir
  /\ injected = <<>>
  /\ ran = {}
  /\ procEnv = "env"
  /\ callbacks = 0
  /\ pass = NoPass
  /\ fresh = FALSE
  /\ resumed = {}
  /\ updates = 0

(* execute up to its first suspension, the call of saveInstance at save    *)
(* point A: the environment is written into the caller's object, which is  *)
(* then cloned and validated (from then on wf is the clone, and nothing    *)
(* else is written into the caller's object); no pre workflow task.        *)
Execute ==
  /\ pc = "start"
  /\ caller' = addEnvVars(caller)
  /\ wf' = [validateWorkflow(addEnvVars(wf)) EXCEPT !.pre = executePrePost(@)]
  /\ pc' = IF wf.pre = <<>> THEN "saveA" ELSE "pre"
  /\ fresh' = FALSE
  /\ UNCHANGED <<pending, ret, store, dir, injected, ran, procEnv, callbacks, pass, resumed, updates>>

(* The callback of save point A up to the next suspension: the paused      *)
(* check, opening, the queue, and asyncLib.parallel starting the queue.    *)
PassA ==
  /\ pc = "saveA"
  /\ store' = saveInstance(store, wf)
  /\ UNCHANGED <<dir, injected, procEnv>>
  /\ UNCHANGED <<caller, resumed, updates>>
  /\ IF Len(getTasksByStatus(wf.tasks, "paused")) > 0
     THEN /\ pass' = [NoPass EXCEPT !.paused = TRUE, !.before = wf.tasks,
                                    !.opened = wf.tasks, !.queued = wf.tasks,
                                    !.saves = store'.n]
          /\ wf' = [wf EXCEPT !.post = executePrePost(@)]
          /\ pending' = pending
          /\ ran' = ran
          /\ IF wf.post = <<>>
             THEN /\ pc' = "returned"
                  /\ ret' = [err |-> "none", inst |-> TRUE]
                  /\ callbacks' = callbacks + 1
                  /\ fresh' = TRUE
             ELSE /\ pc' = "post"
                  /\ fresh' = FALSE
                  /\ UNCHANGED <<ret, callbacks>>
     ELSE
       LET opened == openNextAvailableTask(wf)
           obj == getTasksByStatus(opened.tasks, "open")
           enq == Enqueue(opened.tasks, obj, 1, <<>>)
           run == RunQueue(enq.tasks, enq.queue, 1, {}, FALSE)
       IN
       /\ pass' = [paused |-> FALSE, before |-> wf.tasks, opened |-> opened.tasks,
                   queued |-> enq.tasks, queue |-> enq.queue, invoked |-> {},
                   errs |-> {}, saves |-> store'.n, reported |-> {}]
       /\ ret' = ret
       /\ callbacks' = callbacks
       /\ fresh' = FALSE
       /\ IF Len(enq.queue) > 0
          THEN /\ pending' = run.started
               /\ ran' = ran \cup {[path |-> p, call |-> updates] : p \in run.started}
               /\ wf' = [wf EXCEPT !.status = IF run.failed THEN "error" ELSE @,
                                   !.tasks = run.tasks]
               /\ pc' = IF run.failed THEN "saveB"
                        ELSE IF run.started = {} THEN "saveA" ELSE "batch"
          ELSE /\ pending' = {}
               /\ ran' = ran
               /\ wf' = [opened EXCEPT !.status =
                           IF childHasStatus(opened.tasks, "completed", TRUE)
                           THEN "completed" ELSE @]
               /\ pc' = "saveC"

(* Report without the guard of asyncLib.parallel that hands only the first *)
(* error of a batch to its final callback: an error reported after the     *)
(* batch has failed reaches the final callback again.                      *)
ReportEveryError(p, outcome) ==
  /\ p \in pending
  /\ LET t == TaskAt(wf.tasks, p)
         err == HandlerErr(t, outcome)
         tasks2 == SetAt(wf.tasks, p, HandlerDone(t, outcome))
     IN
     /\ pending' = pending \ {p}
     /\ pass' = [pass EXCEPT
                   !.invoked = IF outcome = "loadfail" THEN @ ELSE @ \cup {p},
                   !.errs = IF outcome = "err" THEN @ \cup {p} ELSE @,
                   !.reported = @ \cup {[path |-> p, outcome |-> outcome]}]
     /\ IF err
        THEN /\ wf' = [wf EXCEPT !.status = "error", !.tasks = tasks2]
             /\ pc' = "saveB"
        ELSE /\ wf' = [wf EXCEPT !.tasks = tasks2]
             /\ pc' = IF pc = "batch" /\ pending' = {} THEN "saveA" ELSE pc
  /\ fresh' = FALSE
  /\ UNCHANGED <<caller, ret, store, dir, injected, ran, procEnv, callbacks, resumed, updates>>

(* Report with a handler that hands back the tree as it was when the batch *)
(* was started, changed at its own task: the reports made before are lost. *)
ReportOnSnapshot(p, outcome) ==
  /\ p \in pending
  /\ LET started == RunQueue(pass.queued, pass.queue, 1, {}, FALSE).tasks
         t == TaskAt(started, p)
         err == HandlerErr(t, outcome)
         tasks2 == SetAt(started, p, HandlerDone(t, outcome))
     IN
     /\ pending' = pending \ {p}
     /\ pass' = [pass EXCEPT
                   !.invoked = IF outcome = "loadfail" THEN @ ELSE @ \cup {p},
                   !.errs = IF outcome = "err" THEN @ \cup {p} ELSE @,
                   !.reported = @ \cup {[path |-> p, outcome |-> outcome]}]
     /\ IF pc = "batch" /\ err
        THEN /\ wf' = [wf EXCEPT !.status = "error", !.tasks = tasks2]
             /\ pc' = "saveB"
        ELSE /\ wf' = [wf EXCEPT !.tasks = tasks2]
             /\ pc' = IF pc = "batch" /\ pending' = {} THEN "saveA" ELSE pc
  /\ fresh' = FALSE
  /\ UNCHANGED <<caller, ret, store, dir, injected, ran, procEnv, callbacks, resumed, updates>>

(* A started handler reports through the callback of executeTask.  While   *)
(* the batch is live, the first error goes to the final callback of        *)
(* asyncLib.parallel at once, and the last report starts the next pass.    *)
Report(p, outcome) ==
  /\ p \in pending
  /\ LET t == TaskAt(wf.tasks, p)
         err == HandlerErr(t, outcome)
         tasks2 == SetAt(wf.tasks, p, HandlerDone(t, outcome))
     IN
     /\ pending' = pending \ {p}
     /\ pass' = [pass EXCEPT
                   !.invoked = IF outcome = "loadfail" THEN @ ELSE @ \cup {p},
                   !.errs = IF outcome = "err" THEN @ \cup {p} ELSE @,
                   !.reported = @ \cup {[path |-> p, outcome |-> outcome]}]
     /\ IF pc = "batch" /\ err
        THEN /\ wf' = [wf EXCEPT !.status = "error", !.tasks = tasks2]
             /\ pc' = "saveB"
        ELSE /\ wf' = [wf EXCEPT !.tasks = tasks2]
             /\ pc' = IF pc = "batch" /\ pending' = {} THEN "saveA" ELSE pc
  /\ fresh' = FALSE
  /\ UNCHANGED <<caller, ret, store, dir, injected, ran, procEnv, callbacks, resumed, updates>>

(* Save point B completes: the handler's error goes to the caller. *)
SaveB ==
  /\ pc = "saveB"
  /\ store' = saveInstance(store, wf)
  /\ UNCHANGED <<dir, injected, ran, procEnv>>
  /\ callbacks' = callbacks + 1
  /\ pc' = "returned"
  /\ ret' = [err |-> "handler", inst |-> TRUE]
  /\ fresh' = TRUE
  /\ UNCHANGED <<caller, wf, pending, pass, resumed, updates>>

(* Save point C completes: the scheduler returns without error, and       *)
(* execute calls the caller unless there is a post workflow task to run.   *)
SaveC ==
  /\ pc = "saveC"
  /\ store' = saveInstance(store, wf)
  /\ UNCHANGED <<dir, injected, ran, procEnv>>
  /\ wf' = [wf EXCEPT !.post = executePrePost(@)]
  /\ IF wf.post = <<>>
     THEN /\ pc' = "returned"
          /\ ret' = [err |-> "none", inst |-> TRUE]
          /\ callbacks' = callbacks + 1
          /\ fresh' = TRUE
     ELSE /\ pc' = "post"
          /\ fresh' = FALSE
          /\ UNCHANGED <<ret, callbacks>>
  /\ UNCHANGED <<caller, pending, pass, resumed, updates>>

(* The handler of the pre workflow task reports: whatever it reports, the  *)
(* scheduler starts.                                                       *)
PreDone(outcome) ==
  /\ pc = "pre"
  /\ wf' = [wf EXCEPT !.pre = <<HandlerDone(@[1], outcome)>>]
  /\ pc' = "saveA"
  /\ UNCHANGED <<caller, pending, ret, store, dir, injected, ran, procEnv, callbacks, pass,
                 fresh, resumed, updates>>

(* The handler of the post workflow task reports: whatever it reports, the *)
(* caller is called without error.                                         *)
PostDone(outcome) ==
  /\ pc = "post"
  /\ wf' = [wf EXCEPT !.post = <<HandlerDone(@[1], outcome)>>]
  /\ pc' = "returned"
  /\ ret' = [err |-> "none", inst |-> TRUE]
  /\ callbacks' = callbacks + 1
  /\ fresh' = TRUE
  /\ UNCHANGED <<caller, pending, store, dir, injected, ran, procEnv, pass, resumed, updates>>

(* A failed save after which execute goes on to the post workflow task. *)
SaveFailedRunsPost ==
  /\ pc \in {"saveA", "saveB", "saveC"}
  /\ wf' = [wf EXCEPT !.post = executePrePost(@)]
  /\ IF wf.post = <<>>
     THEN /\ pc' = "returned"
          /\ ret' = [err |-> "save", inst |-> TRUE]
          /\ callbacks' = callbacks + 1
          /\ fresh' = TRUE
     ELSE /\ pc' = "post"
          /\ fresh' = FALSE
          /\ UNCHANGED <<ret, callbacks>>
  /\ UNCHANGED <<caller, pending, store, dir, injected, ran, procEnv, pass, resumed, updates>>

(* saveInstance fails at save point A, B or C: the callback of realExecute *)
(* gets the save error, and execute hands it to the caller.                *)
SaveFailed ==
  /\ pc \in {"saveA", "saveB", "saveC"}
  /\ pc' = "returned"
  /\ ret' = [err |-> "save", inst |-> TRUE]
  /\ callbacks' = callbacks + 1
  /\ fresh' = TRUE
  /\ UNCHANGED <<caller, wf, pending, store, dir, injected, ran, procEnv, pass, resumed,
                 updates>>

(* The next call comes from a process with another environment. *)
Setenv(env) ==
  /\ pc = "returned"
  /\ env # procEnv
  /\ procEnv' = env
  /\ UNCHANGED <<caller, wf, pc, pending, ret, store, dir, injected, ran, callbacks, pass,
                 fresh, resumed, updates>>

(* Update without the test of the stored status. *)
UpdateCompletedToo(bundle) ==
  LET loaded == loadCurrent(store) IN
  /\ pc = "returned"
  /\ updates < MaxUpdates
  /\ updates' = updates + 1
  /\ ~loaded.err
  /\ UNCHANGED <<caller, store, dir, injected, ran, procEnv>>
  /\ wf' = [validateWorkflow(addEnvVars(mergeTasks(loaded.inst, bundle)))
              EXCEPT !.pre = executePrePost(@)]
  /\ resumed' = Resumed(loaded.inst.tasks, bundle)
  /\ pc' = IF loaded.inst.pre = <<>> THEN "saveA" ELSE "pre"
  /\ pending' = {}
  /\ pass' = NoPass
  /\ fresh' = FALSE
  /\ UNCHANGED <<ret, callbacks>>

(* updateTasks: the current record is loaded, and a failed load is handed  *)
(* to the caller as it is; a completed instance is                         *)
(* refused, any other is merged with the bundle and executed up to the     *)
(* pre workflow task or the call of saveInstance at save point A.          *)
(* Handlers of an earlier call that have not reported hold the object of   *)
(* that call, not the loaded one.                                          *)
Update(bundle) ==
  LET loaded == loadCurrent(store) IN
  /\ pc = "returned"
  /\ updates < MaxUpdates
  /\ updates' = updates + 1
  /\ UNCHANGED <<caller, store, dir, injected, procEnv>>
  /\ IF loaded.err
     THEN /\ ret' = [err |-> "load", inst |-> FALSE]
          /\ callbacks' = callbacks + 1
          /\ fresh' = TRUE
          /\ UNCHANGED <<wf, pc, pending, pass, resumed, ran>>
     ELSE IF loaded.inst.status # "completed"
     THEN /\ wf' = [validateWorkflow(addEnvVars(mergeTasks(loaded.inst, bundle)))
                      EXCEPT !.pre = executePrePost(@)]
          /\ resumed' = Resumed(loaded.inst.tasks, bundle)
          /\ ran' = {r \in ran : ~Injects(loaded.inst.tasks, bundle, r.path)}
          /\ pc' = IF loaded.inst.pre = <<>> THEN "saveA" ELSE "pre"
          /\ pending' = {}
          /\ pass' = NoPass
          /\ fresh' = FALSE
          /\ UNCHANGED <<ret, callbacks>>
     ELSE /\ ret' = [err |-> "completed", inst |-> FALSE]
          /\ callbacks' = callbacks + 1
          /\ fresh' = TRUE
          /\ UNCHANGED <<wf, pc, pending, pass, resumed, ran>>

Next ==
  \/ Execute
  \/ PassA
  \/ \E p \in pending : \E outcome \in Outcomes(TaskAt(wf.tasks, p)) : Report(p, outcome)
  \/ SaveB
  \/ SaveC
  \/ \E bundle \in Bundles(store.cur) : Update(bundle)

Spec == Init /\ [][Next]_vars

(***************************************************************************)
(* The engine on definitions with references: task a, whose handler writes *)
(* its parameter x, and task b, whose parameter log refers to that x, to   *)
(* the environment or to nothing; b is opened with a, or after a when a is *)
(* blocking.                                                               *)
(***************************************************************************)

Templates ==
  { <<RefX>>, <<"v", "a", "l", "=", RefX>>,
    <<RefNone>>, <<"v", "a", "l", "=", RefNone>>,
    <<RefHome>>, <<"v", "a", "l", "=", RefHome>>,
    <<RefX, RefNone>> }

RefDefinition(x, blocking, template) ==
  << [NewTask("a", Undef, "w", Undef, Undef, Undef, blocking, FALSE, <<>>)
        EXCEPT !.parameters = <<[x |-> x, log |-> JsUndefined]>>],
     [NewTask("b", Undef, "h", Undef, Undef, Undef, Undef, FALSE, <<>>)
        EXCEPT !.parameters = <<[x |-> JsUndefined, log |-> JsString(template)]>>] >>

RefInit ==
  /\ wf \in { [NoInstance EXCEPT !.tasks = RefDefinition(x, blocking, template)] :
                 x \in {JsUndefined, JsNumber}, blocking \in {Undef, "true"},
                 template \in Templates }
  /\ caller = [environment |-> wf.environment]
  /\ pc = "start"
  /\ pending = {}
  /\ ret = [err |-> "none", inst |-> FALSE]
  /\ store = NoStore
  /\ dir = NoDir
  /\ injected = <<>>
  /\ ran = {}
  /\ procEnv = "env"
  /\ callbacks = 0
  /\ pass = NoPass
  /\ fresh = FALSE
  /\ resumed = {}
  /\ updates = 0

RefSpec == RefInit /\ [][Next]_vars

(***************************************************************************)
(* The engine with what Spec leaves out: definitions with pre workflow and *)
(* post workflow tasks, saves that fail, and calls made from processes     *)
(* with different environments.                                            *)
(***************************************************************************)

HostDefinitions ==
  { Tree(<<0>>, <<1>>, <<Plain>>),
    Tree(<<0, 0>>, <<1, 2>>, <<Plain, Plain>>),
    Tree(<<0, 1>>, <<1, 2>>, <<Container, Plain>>) }

ProcessEnvs == {"env", "env2"}

HostInit ==
  /\ wf \in { [NoInstance EXCEPT !.tasks = d, !.pre = pre, !.post = post] :
                 d \in HostDefinitions, pre \in {<<>>, Hook}, post \in {<<>>, Hook} }
  /\ caller = [environment |-> wf.environment]
  /\ pc = "start"
  /\ pending = {}
  /\ ret = [err |-> "none", inst |-> FALSE]
  /\ store = NoStore
  /\ dir = NoDir
  /\ injected = <<>>
  /\ ran = {}
  /\ procEnv = "env"
  /\ callbacks = 0
  /\ pass = NoPass
  /\ fresh = FALSE
  /\ resumed = {}
  /\ updates = 0

HostNext ==
  \/ Next
  \/ \E outcome \in Outcomes(Hook[1]) : PreDone(outcome)
  \/ \E outcome \in Outcomes(Hook[1]) : PostDone(outcome)
  \/ SaveFailed
  \/ \E env \in ProcessEnvs : Setenv(env)

HostSpec == HostInit /\ [][HostNext]_vars

(***************************************************************************)
(* The engine under a clock that moves between its steps.                  *)
(***************************************************************************)

(* A blocking task before a plain one; two plain tasks; a container with   *)
(* one child; a plain task before one that arrives open.                   *)
TimeDefinitions ==
  { Tree(<<0, 0>>, <<1, 2>>, <<Blocking, Plain>>),
    Tree(<<0, 0>>, <<1, 2>>, <<Plain, Plain>>),
    Tree(<<0, 1>>, <<1, 2>>, <<Container, Plain>>),
    Tree(<<0, 0>>, <<1, 2>>,
         <<Plain, Profile("open", "h", Undef, Undef, Undef, Undef, FALSE)>>) }

TimeInit ==
  /\ wf \in { [NoInstance EXCEPT !.tasks = d] : d \in TimeDefinitions }
  /\ caller = [environment |-> wf.environment]
  /\ pc = "start"
  /\ pending = {}
  /\ ret = [err |-> "none", inst |-> FALSE]
  /\ store = NoStore
  /\ dir = NoDir
  /\ injected = <<>>
  /\ ran = {}
  /\ procEnv = "env"
  /\ callbacks = 0
  /\ pass = NoPass
  /\ fresh = FALSE
  /\ resumed = {}
  /\ updates = 0

(* The clock moves on: the next Date.now() gives a later millisecond. *)
Tick ==
  /\ dir.clock < MaxClock
  /\ dir' = [dir EXCEPT !.clock = @ + 1]
  /\ UNCHANGED <<caller, wf, pc, pending, ret, store, injected, ran, procEnv, callbacks, pass,
                 fresh, resumed, updates>>

TimeNext == Next \/ Tick

TimeSpec == TimeInit /\ [][TimeNext]_vars

(***************************************************************************)
(* The file backend under a client that saves and loads one id.            *)
(***************************************************************************)

(* Instances that differ in what a load can tell apart. *)
StoreInstances ==
  { [NoInstance EXCEPT !.status = st, !.environment = "env", !.id = "uuid"] :
      st \in {"open", "completed", "error"} }

StoreInit ==
  /\ wf \in StoreInstances
  /\ caller = [environment |-> "env"]
  /\ pc = "store"
  /\ pending = {}
  /\ ret = [err |-> "none", inst |-> FALSE]
  /\ store = NoStore
  /\ dir = NoDir
  /\ injected = <<>>
  /\ ran = {}
  /\ procEnv = "env"
  /\ callbacks = 0
  /\ pass = NoPass
  /\ fresh = FALSE
  /\ resumed = {}
  /\ updates = 0

(* The client changes its instance and saves it. *)
StoreSave(inst, now) ==
  /\ pc = "store"
  /\ store.n < MaxSaves
  /\ wf' = inst
  /\ dir' = fileSaveInstance(dir, inst, now)
  /\ store' = saveInstance(store, inst)
  /\ ret' = [err |-> "none", inst |-> FALSE]
  /\ UNCHANGED <<caller, pc, pending, injected, ran, procEnv, callbacks, pass, fresh, resumed, updates>>

(* The client loads the id with a rewind (getWorkflow of the API). *)
StoreLoad(rewind) ==
  LET loaded == fileLoadInstance(dir, rewind) IN
  /\ pc = "store"
  /\ wf' = IF loaded.err THEN wf ELSE loaded.inst
  /\ ret' = [err |-> IF loaded.err THEN "load" ELSE "none", inst |-> ~loaded.err]
  /\ UNCHANGED <<caller, pc, pending, store, dir, injected, ran, procEnv, callbacks, pass, fresh, resumed, updates>>

StoreNext ==
  \/ \E inst \in StoreInstances : \E now \in Nows(dir) : StoreSave(inst, now)
  \/ \E rewind \in 0..(MaxSaves + 1) : StoreLoad(rewind)

StoreSpec == StoreInit /\ [][StoreNext]_vars

(***************************************************************************)
(* The merge of updateTasks on its own: a stored instance, a bundle.       *)
(***************************************************************************)

(* Bundles of two names, each of the tree or the name no task has. *)
TwoNames(inst) ==
  LET names == NamesIn(inst.tasks) \cup {"zz"} IN
  { b \in { <<[name |-> n1, task |-> t1], [name |-> n2, task |-> t2]>> :
               n1 \in names, n2 \in names, t1 \in BundleTasks, t2 \in BundleTasks } :
      b[1].name # b[2].name }

(* An instance as execute stores it before its first pass. *)
MergeInit ==
  /\ procEnv = "env"
  /\ wf \in { validateWorkflow(addEnvVars([NoInstance EXCEPT !.tasks = d])) :
                d \in Definitions }
  /\ caller = [environment |-> "env"]
  /\ pc = "merge"
  /\ pending = {}
  /\ ret = [err |-> "none", inst |-> FALSE]
  /\ store = saveInstance(NoStore, wf)
  /\ dir = NoDir
  /\ injected = <<>>
  /\ ran = {}
  /\ callbacks = 0
  /\ pass = NoPass
  /\ fresh = FALSE
  /\ resumed = {}
  /\ updates = 0

(* updateTasks up to the call of execute: the instance is loaded and the   *)
(* bundle merged into it.                                                  *)
Merge(bundle) ==
  LET loaded == loadCurrent(store) IN
  /\ pc = "merge"
  /\ ~loaded.err
  /\ loaded.inst.status # "completed"
  /\ wf' = mergeTasks(loaded.inst, bundle)
  /\ injected' = bundle
  /\ ran' = ran
  /\ pc' = "merged"
  /\ UNCHANGED <<caller, pending, ret, store, dir, procEnv, callbacks, pass, fresh,
                 resumed, updates>>

MergeNext ==
  \E bundle \in Bundles(store.cur) \cup TwoNames(store.cur) : Merge(bundle)

MergeSpec == MergeInit /\ [][MergeNext]_vars

(***************************************************************************)
(* The store with several instance ids and with definitions,               *)
(* src/engine/persistence/store.js over file.js or mongo.js.               *)
(***************************************************************************)

(* Instance ids and definition names, as sequences of characters: an id is *)
(* whatever the caller supplied in the workflow (validateWorkflow assigns  *)
(* one only when there is none).                                           *)
Ids == {<<"a">>, <<"a", "_", "b">>}

DefNames == {<<"n">>}

(* Date.now() in a name. *)
Stamp(now) == <<"_", <<"0", "1", "2", "3", "4", "5", "6", "7", "8", "9">>[now + 1]>>

(* The order of the characters by code unit, and of the names by           *)
(* Array.prototype.sort and by the sort of a find.                         *)
Rank(c) ==
  CASE c = ".def" -> 0
    [] c \in {"0", "1", "2", "3", "4", "5", "6", "7", "8", "9"} ->
         CHOOSE n \in 1..10 : Stamp(n - 1)[2] = c
    [] c = "_" -> 11
    [] c = "a" -> 12
    [] c = "b" -> 13
    [] c = "c" -> 14
    [] OTHER -> 15

RECURSIVE Less(_, _)
Less(n1, n2) ==
  IF n2 = <<>> THEN FALSE
  ELSE IF n1 = <<>> THEN TRUE
  ELSE IF Head(n1) = Head(n2) THEN Less(Tail(n1), Tail(n2))
  ELSE Rank(Head(n1)) < Rank(Head(n2))

(* The name begins with the prefix: the glob <prefix>* of file.js, and the *)
(* regular expression ^<prefix> of mongo.js.                               *)
IsPrefix(prefix, name) ==
  Len(prefix) <= Len(name) /\ SubSeq(name, 1, Len(prefix)) = prefix

(* The store: type is config.type; files are the files [name, data] of     *)
(* the data directory of file.js; instances, history and definitions are   *)
(* the collections of mongo.js, history in the order of insertion; clock   *)
(* is the last value of Date.now(), n the number of saves.  last is not in *)
(* the store: the last operation, its argument, whether it failed and how  *)
(* many records it found to delete.                                        *)
NoRecords(type) ==
  [type |-> type, files |-> {}, instances |-> {}, history |-> <<>>,
   definitions |-> {}, clock |-> 0, n |-> 0,
   last |-> [op |-> "initStore", id |-> <<>>, err |-> FALSE, count |-> 0]]

(* fs.writeFile and fs.unlink on the directory. *)
writeFile(files, name, data) ==
  {f \in files : f.name # name} \cup {[name |-> name, data |-> data]}

unlink(files, names) == {f \in files : f.name \notin names}

(* glob of <prefix> and a star: the names of the files that begin with   *)
(* the prefix.                                                            *)
glob(files, prefix) == {f.name : f \in {g \in files : IsPrefix(prefix, g.name)}}

(* saveInstance of file.js: a current file <id> is renamed to <id>_<now>,  *)
(* then the instance is written as <id>.                                   *)
fileSaveInstanceIn(files, workflow, now) ==
  LET current == {f \in files : f.name = workflow.id}
      archived == IF current = {} THEN files
                  ELSE writeFile(unlink(files, {workflow.id}),
                                 workflow.id \o Stamp(now),
                                 (CHOOSE f \in current : TRUE).data)
  IN writeFile(archived, workflow.id, workflow)

(* loadInstance of file.js: [err, inst]; the historical files are those    *)
(* glob finds for <id>_*, sorted by name.                                  *)
fileLoadInstanceIn(files, id, rewind) ==
  LET found == glob(files, id \o <<"_">>)
      rw == IF rewind > Cardinality(found) THEN Cardinality(found) ELSE rewind
      index == Cardinality(found) - rw
      targetFile == IF found # {} /\ rewind > 0
                    THEN CHOOSE name \in found :
                           Cardinality({m \in found : Less(m, name)}) = index
                    ELSE id
      target == {f \in files : f.name = targetFile}
  IN IF target = {} THEN [err |-> TRUE, inst |-> NoInstance]
     ELSE [err |-> FALSE, inst |-> (CHOOSE f \in target : TRUE).data]

(* deleteInstance of file.js: [err, files, count]; the unlink of a current *)
(* file that is not there throws before anything else is done; otherwise   *)
(* every file glob finds for <id>_* is unlinked too.                       *)
fileDeleteInstance(files, id) ==
  IF \A f \in files : f.name # id
  THEN [err |-> TRUE, files |-> files, count |-> 0]
  ELSE LET historyFiles == glob(unlink(files, {id}), id \o <<"_">>)
       IN [err |-> FALSE, files |-> unlink(files, {id} \cup historyFiles),
           count |-> Cardinality(historyFiles)]

(* A deleteAll of file.js whose glob ignores nothing. *)
fileDeleteAllWithDefinitions(files) ==
  [files |-> {}, count |-> Cardinality(files)]

(* deleteAll of file.js: every file that glob finds for * and that *.def   *)
(* does not match is unlinked.                                             *)
fileDeleteAll(files) ==
  LET found == {f.name : f \in {g \in files : g.name[Len(g.name)] # ".def"}}
  IN [files |-> unlink(files, found), count |-> Cardinality(found)]

(* saveDefinition and getDefinition of file.js, on the file <name>.def. *)
fileSaveDefinition(files, workflowDef) ==
  writeFile(files, workflowDef.name \o <<".def">>, workflowDef)

fileGetDefinition(files, name) ==
  LET target == {f \in files : f.name = name \o <<".def">>}
  IN IF target = {} THEN [err |-> TRUE, def |-> <<>>]
     ELSE [err |-> FALSE, def |-> <<(CHOOSE f \in target : TRUE).data>>]

(* saveInstance of mongo.js for a caller that holds the stored document    *)
(* when there is one: the document of the id is replaced, or inserted when *)
(* there is none, and a copy is inserted into the history under            *)
(* <id>_<now>.                                                             *)
mongoSaveInstance(d, workflow, now) ==
  [d EXCEPT
     !.instances = {w \in @ : w.id # workflow.id} \cup {workflow},
     !.history = Append(@, [id |-> workflow.id \o Stamp(now), data |-> workflow])]

(* loadInstance of mongo.js: the set of [err, inst] it can call back with. *)
(* The historical documents are those whose id matches ^<id>_, sorted by   *)
(* id; documents of the same id come in an order the sort does not fix.    *)
mongoLoadInstance(d, id, rewind) ==
  IF rewind = 0
  THEN LET result == {w \in d.instances : w.id = id}
       IN IF result = {} THEN {[err |-> TRUE, inst |-> NoInstance]}
          ELSE {[err |-> FALSE, inst |-> w] : w \in result}
  ELSE
    LET found == {i \in 1..Len(d.history) : IsPrefix(id \o <<"_">>, d.history[i].id)}
        index == IF Cardinality(found) - 1 - rewind < 0 THEN 0
                 ELSE Cardinality(found) - 1 - rewind
        below(i) == Cardinality({j \in found : Less(d.history[j].id, d.history[i].id)})
        upto(i) == Cardinality({j \in found : ~Less(d.history[i].id, d.history[j].id)})
    IN IF found = {} THEN {[err |-> TRUE, inst |-> NoInstance]}
       ELSE {[err |-> FALSE, inst |-> d.history[i].data] :
               i \in {j \in found : below(j) <= index /\ index < upto(j)}}

(* deleteInstance of mongo.js: [err, d, count]; a deleteOne that deletes   *)
(* nothing is an error, otherwise deleteInstanceHistory deletes every      *)
(* historical document whose id matches ^<id>_.                            *)
mongoDeleteInstance(d, id) ==
  IF \A w \in d.instances : w.id # id
  THEN [err |-> TRUE, d |-> d, count |-> 0]
  ELSE [err |-> FALSE,
        d |-> [d EXCEPT !.instances = {w \in @ : w.id # id},
                        !.history = SelectSeq(@, LAMBDA h : ~IsPrefix(id \o <<"_">>, h.id))],
        count |-> Cardinality({i \in 1..Len(d.history) :
                                 IsPrefix(id \o <<"_">>, d.history[i].id)})]

(* deleteAll of mongo.js: deleteAllInstances, then deleteAllHistory. *)
mongoDeleteAll(d) ==
  [d |-> [d EXCEPT !.instances = {}, !.history = <<>>],
   count |-> Cardinality(d.instances) + Len(d.history)]

(* saveDefinition of mongo.js: updateOne by name with $set and upsert; the  *)
(* fields of workflowDef are set in the document of that name, and the     *)
(* fields the document has beyond them stay; without such a document       *)
(* workflowDef is inserted.                                                *)
mongoSaveDefinition(definitions, workflowDef) ==
  LET result == {w \in definitions : w.name = workflowDef.name}
      set(w) == [k \in DOMAIN w \cup DOMAIN workflowDef |->
                  IF k \in DOMAIN workflowDef THEN workflowDef[k] ELSE w[k]]
  IN IF result = {} THEN definitions \cup {workflowDef}
     ELSE (definitions \ result) \cup {set(w) : w \in result}

(* getDefinition of mongo.js. *)

mongoGetDefinition(definitions, name) ==
  LET result == {w \in definitions : w.name = name}
  IN IF result = {} THEN [err |-> TRUE, def |-> <<>>]
     ELSE [err |-> FALSE, def |-> <<CHOOSE w \in result : TRUE>>]

(* The operations of store.js, which hands each call to the module of      *)
(* config.type.                                                            *)
storeLoadInstance(d, id, rewind) ==
  IF d.type = "file" THEN {fileLoadInstanceIn(d.files, id, rewind)}
  ELSE mongoLoadInstance(d, id, rewind)

storeGetDefinition(d, name) ==
  IF d.type = "file" THEN fileGetDefinition(d.files, name)
  ELSE mongoGetDefinition(d.definitions, name)

storeDeleteInstance(d, id) ==
  IF d.type = "file"
  THEN LET r == fileDeleteInstance(d.files, id)
       IN [err |-> r.err, d |-> [d EXCEPT !.files = r.files], count |-> r.count]
  ELSE mongoDeleteInstance(d, id)

storeDeleteAll(d) ==
  IF d.type = "file"
  THEN LET r == fileDeleteAll(d.files)
       IN [d |-> [d EXCEPT !.files = r.files], count |-> r.count]
  ELSE mongoDeleteAll(d)

(* What a client of the store saves. *)
DirInstances ==
  { [NoInstance EXCEPT !.status = st, !.environment = "env", !.id = id] :
      st \in {"open", "completed"}, id \in Ids }

DirDefinitions == { [name |-> name, tasks |-> tasks] : name \in DefNames, tasks \in {<<>>, Hook} }

DirInit ==
  /\ wf = NoInstance
  /\ caller = [environment |-> "env"]
  /\ pc = "store"
  /\ pending = {}
  /\ ret = [err |-> "none", inst |-> FALSE]
  /\ store = NoStore
  /\ dir \in {NoRecords(type) : type \in {"file", "mongo"}}
  /\ injected = <<>>
  /\ ran = {}
  /\ procEnv = "env"
  /\ callbacks = 0
  /\ pass = NoPass
  /\ fresh = FALSE
  /\ resumed = {}
  /\ updates = 0

Called(d, op, id, err, count) ==
  [d EXCEPT !.last = [op |-> op, id |-> id, err |-> err, count |-> count]]

(* saveInstance(inst) at time now. *)
DirSave(inst, now) ==
  /\ pc = "store"
  /\ dir.n < MaxSaves
  /\ dir' = Called([(IF dir.type = "file"
                     THEN [dir EXCEPT !.files = fileSaveInstanceIn(@, inst, now)]
                     ELSE mongoSaveInstance(dir, inst, now))
                      EXCEPT !.clock = now, !.n = @ + 1],
                   "saveInstance", inst.id, FALSE, 0)
  /\ ret' = [err |-> "none", inst |-> FALSE]
  /\ UNCHANGED <<caller, wf, pc, pending, store, injected, ran, procEnv, callbacks, pass, fresh, resumed, updates>>

(* loadInstance(id, rewind). *)
DirLoad(id, rewind) ==
  /\ pc = "store"
  /\ \E loaded \in storeLoadInstance(dir, id, rewind) :
       /\ wf' = IF loaded.err THEN wf ELSE loaded.inst
       /\ ret' = [err |-> IF loaded.err THEN "load" ELSE "none", inst |-> ~loaded.err]
       /\ dir' = Called(dir, "loadInstance", id, loaded.err, 0)
  /\ UNCHANGED <<caller, pc, pending, store, injected, ran, procEnv, callbacks, pass, fresh, resumed, updates>>

(* deleteInstance(id). *)
DirDeleteInstance(id) ==
  LET r == storeDeleteInstance(dir, id) IN
  /\ pc = "store"
  /\ dir' = Called(r.d, "deleteInstance", id, r.err, r.count)
  /\ ret' = [err |-> IF r.err THEN "delete" ELSE "none", inst |-> FALSE]
  /\ UNCHANGED <<caller, wf, pc, pending, store, injected, ran, procEnv, callbacks, pass, fresh, resumed, updates>>

(* deleteAll(). *)
DirDeleteAll ==
  LET r == storeDeleteAll(dir) IN
  /\ pc = "store"
  /\ dir' = Called(r.d, "deleteAll", <<>>, FALSE, r.count)
  /\ ret' = [err |-> "none", inst |-> FALSE]
  /\ UNCHANGED <<caller, wf, pc, pending, store, injected, ran, procEnv, callbacks, pass, fresh, resumed, updates>>

(* saveDefinition(workflowDef). *)
DirSaveDefinition(workflowDef) ==
  /\ pc = "store"
  /\ dir' = Called(IF dir.type = "file"
                   THEN [dir EXCEPT !.files = fileSaveDefinition(@, workflowDef)]
                   ELSE [dir EXCEPT !.definitions = mongoSaveDefinition(@, workflowDef)],
                   "saveDefinition", workflowDef.name, FALSE, 0)
  /\ ret' = [err |-> "none", inst |-> FALSE]
  /\ UNCHANGED <<caller, wf, pc, pending, store, injected, ran, procEnv, callbacks, pass, fresh, resumed, updates>>

(* getDefinition(name). *)
DirGetDefinition(name) ==
  LET r == storeGetDefinition(dir, name) IN
  /\ pc = "store"
  /\ dir' = Called(dir, "getDefinition", name, r.err, 0)
  /\ ret' = [err |-> IF r.err THEN "definition" ELSE "none", inst |-> FALSE]
  /\ UNCHANGED <<caller, wf, pc, pending, store, injected, ran, procEnv, callbacks, pass, fresh, resumed, updates>>

DirNext ==
  \/ \E inst \in DirInstances : \E now \in {dir.clock, dir.clock + 1} : DirSave(inst, now)
  \/ \E id \in Ids : \E rewind \in 0..MaxSaves : DirLoad(id, rewind)
  \/ \E id \in Ids : DirDeleteInstance(id)
  \/ DirDeleteAll
  \/ \E workflowDef \in DirDefinitions : DirSaveDefinition(workflowDef)
  \/ \E name \in DefNames : DirGetDefinition(name)

DirSpec == DirInit /\ [][DirNext]_vars

(***************************************************************************)
(* The store under a client that saves and gets definitions.               *)
(***************************************************************************)

(* Definitions under two names, with and without a pre workflow task. *)
SavedNames == {<<"n">>, <<"m">>}

SavedDefinitions ==
  { [name |-> name, tasks |-> tasks] : name \in SavedNames, tasks \in {<<>>, Hook} }
  \cup { [name |-> name, tasks |-> tasks, pre |-> Hook] :
           name \in SavedNames, tasks \in {<<>>, Hook} }

DefNext ==
  \/ \E workflowDef \in SavedDefinitions : DirSaveDefinition(workflowDef)
  \/ \E name \in SavedNames : DirGetDefinition(name)

DefSpec == DirInit /\ [][DefNext]_vars

(***************************************************************************)
(* Properties.                                                             *)
(***************************************************************************)

StatusAt(tasks, p) == TaskAt(tasks, p).status

Descendants(tasks, p) == {q \in Paths(tasks) : IsDescendant(q, p)}

(* Every completed task has only completed descendants. *)
CompletedClosed(tasks) ==
  \A p \in Paths(tasks) :
    StatusAt(tasks, p) = "completed" =>
      \A q \in Descendants(tasks, p) : StatusAt(tasks, q) = "completed"

(* p and q are in the same mapping and p comes first. *)
EarlierSibling(p, q) ==
  /\ Len(p) = Len(q)
  /\ SubSeq(p, 1, Len(p) - 1) = SubSeq(q, 1, Len(q) - 1)
  /\ p[Len(p)] < q[Len(q)]

(* C1, as stated: in every instance state reached through execute and     *)
(* update, every completed task that has children has all its descendants  *)
(* completed.                                                              *)
C1_Original == pc # "start" => CompletedClosed(wf.tasks)

(* C1, amended: every step of the engine other than the merge of an update *)
(* keeps the property that every completed task has only completed         *)
(* descendants; an inbound instance or an injected bundle can break it.    *)
C1_SchedulerKeepsCompletedClosed ==
  [][(updates' = updates /\ CompletedClosed(wf.tasks)) => CompletedClosed(wf'.tasks)]_vars

C1_Witness ==
  /\ pc = "returned"
  /\ CompletedClosed(wf.tasks)
  /\ \E p \in Paths(wf.tasks) :
       /\ StatusAt(wf.tasks, p) = "completed"
       /\ TaskAt(wf.tasks, p).handlerExecuted # Undef
       /\ Descendants(wf.tasks, p) # {}

(* C2: a task is queued in a pass (made executing, its handler possibly    *)
(* invoked) only if all its descendants are completed when the queue is    *)
(* built; no other task becomes executing in the pass, and no handler of a *)
(* task outside the queue is started or invoked.                           *)
C2_ParentsWaitForDescendants ==
  /\ \A i \in 1..Len(pass.queue) :
       \A q \in Descendants(pass.queued, pass.queue[i]) :
         StatusAt(pass.queued, q) = "completed"
  /\ \A p \in Paths(pass.queued) :
       (StatusAt(pass.queued, p) = "executing" /\ StatusAt(pass.before, p) # "executing")
         => p \in Range(pass.queue)
  /\ pending \cup pass.invoked \subseteq Range(pass.queue)

C2_Witness ==
  \E p \in pass.invoked : Descendants(wf.tasks, p) # {}

(* C3, as stated: when execute or update returns an instance, its status   *)
(* is completed iff every top-level task is completed, the empty mapping   *)
(* included.                                                               *)
C3_Original ==
  (fresh /\ ret.inst) =>
    (wf.status = "completed"
       <=> \A i \in 1..Len(wf.tasks) : wf.tasks[i].status = "completed")

(* C4: a task whose handler reported an error that is not ignored has      *)
(* status error and an errorMsg; the instance is in error; no pass follows *)
(* (the engine is at save point B or has returned); save point B adds one  *)
(* save, stores the instance in error, and the caller receives the         *)
(* handler's error with the instance.                                      *)
C4_HandlerErrorEndsExecution ==
  /\ \A p \in pass.errs :
       TaskAt(wf.tasks, p).ignoreError # "true" =>
         /\ StatusAt(wf.tasks, p) = "error"
         /\ TaskAt(wf.tasks, p).errorMsg # Undef
         /\ wf.status = "error"
         /\ pc \in {"saveB", "returned"}
         /\ pc = "saveB" => store.n = pass.saves
         /\ pc = "returned" =>
              /\ store.n = pass.saves + 1
              /\ store.cur.status = "error"
              /\ ret = [err |-> "handler", inst |-> TRUE]
  /\ wf.status = "error" => pc \in {"saveB", "returned"}

C4_Witness ==
  /\ pc = "returned"
  /\ \E p \in pass.errs : TaskAt(wf.tasks, p).ignoreError # "true"

(* No task queued in the pass is in error. *)
NoQueuedError ==
  \A i \in 1..Len(pass.queue) : StatusAt(wf.tasks, pass.queue[i]) # "error"

(* C5: a task with ignoreError true whose handler reported an error is     *)
(* completed; a batch in which no queued task is in error is not failed    *)
(* (the instance is not in error, save point B is not taken), and when its *)
(* last handler has reported the next pass is started.                     *)
C5_IgnoredErrorCompletes ==
  /\ \A p \in pass.errs :
       TaskAt(wf.tasks, p).ignoreError = "true" => StatusAt(wf.tasks, p) = "completed"
  /\ NoQueuedError => (wf.status # "error" /\ pc # "saveB")
  /\ (pass.errs # {} /\ NoQueuedError /\ pending = {}) => pc = "saveA"

C5_Witness ==
  /\ pc = "saveA"
  /\ \E p \in pass.errs : TaskAt(wf.tasks, p).ignoreError = "true"

(* C6: a pass that starts with a paused task anywhere in the tree changes  *)
(* no task, queues and starts nothing, and returns the instance with       *)
(* status open and without error.                                          *)
C6_PausedPassDoesNothing ==
  (\E p \in Paths(pass.before) : StatusAt(pass.before, p) = "paused") =>
    /\ wf.tasks = pass.before
    /\ pass.queue = <<>>
    /\ pending = {}
    /\ pc = "returned"
    /\ ret = [err |-> "none", inst |-> TRUE]
    /\ wf.status = "open"

C6_Witness ==
  /\ pass.paused
  /\ \E p \in Paths(wf.tasks) : StatusAt(wf.tasks, p) = "waiting"
  /\ \E p \in Paths(wf.tasks) : Len(p) > 1 /\ StatusAt(wf.tasks, p) = "paused"

(* C7, as stated: when the update that injects status executing into a     *)
(* paused task returns, that task is completed.                            *)
C7_Original ==
  (fresh /\ ret.inst) => \A p \in resumed : StatusAt(wf.tasks, p) = "completed"

(* C8, as stated: a pass opens a waiting task only if every blocking       *)
(* sibling before it is completed.                                         *)
C8_Original ==
  \A p, q \in Paths(pass.before) :
    ( /\ EarlierSibling(p, q)
      /\ isBlocking(TaskAt(pass.before, p))
      /\ StatusAt(pass.before, q) = "waiting"
      /\ StatusAt(pass.opened, q) # "waiting" )
    => StatusAt(pass.before, p) = "completed"

(* The children of a task that are not after its first blocking child. *)
UpToFirstBlocking(kids) ==
  { j \in 1..Len(kids) : \A i \in 1..(j - 1) : ~isBlocking(kids[i]) }

(* C9: when a pass opens a blocking task, it opens each of its waiting     *)
(* children up to and including the first blocking child.                  *)
C9_BlockingParentOpensChildren ==
  \A p \in Paths(pass.before) :
    ( /\ isBlocking(TaskAt(pass.before, p))
      /\ StatusAt(pass.before, p) = "waiting"
      /\ StatusAt(pass.opened, p) = "open" )
    => \A j \in UpToFirstBlocking(Children(TaskAt(pass.before, p))) :
         StatusAt(pass.before, p \o <<j>>) = "waiting"
           => StatusAt(pass.opened, p \o <<j>>) = "open"

C9_Witness ==
  \E p \in Paths(pass.before) :
    /\ isBlocking(TaskAt(pass.before, p))
    /\ StatusAt(pass.before, p) = "waiting"
    /\ StatusAt(pass.opened, p) = "open"
    /\ \E j \in UpToFirstBlocking(Children(TaskAt(pass.before, p))) :
         /\ j > 1
         /\ isBlocking(TaskAt(pass.before, p \o <<j>>))
         /\ StatusAt(pass.opened, p \o <<j>>) = "open"
         /\ j < Len(Children(TaskAt(pass.before, p)))

(* C10, as stated: of a queued task that has reported, the handler was     *)
(* invoked iff neither gate is true and a handler is named;                *)
(* handlerExecuted is true iff the handler was invoked; and a task skipped *)
(* for skipIf or for want of a handler, errorIf not being true, is         *)
(* completed.                                                              *)
C10_Original ==
  \A i \in 1..Len(pass.queue) :
    LET p == pass.queue[i]
        t == TaskAt(wf.tasks, p)
        gated == t.skipIf = "true" \/ t.errorIf = "true" \/ t.handler = Undef
    IN p \notin pending =>
         /\ p \in pass.invoked <=> ~gated
         /\ t.handlerExecuted = "true" <=> p \in pass.invoked
         /\ (gated /\ t.errorIf # "true") => t.status = "completed"

(* The open tasks of a tree that have no child, or whose descendants are   *)
(* all completed.                                                          *)
ReadyTasks(tasks) ==
  { p \in Paths(tasks) :
      /\ StatusAt(tasks, p) = "open"
      /\ \A q \in Descendants(tasks, p) : StatusAt(tasks, q) = "completed" }

(* C11, as stated: a pass that does not stop at a paused task queues       *)
(* exactly the open tasks that have no child (a tasks mapping that is      *)
(* empty included) or whose descendants are all completed, also when two   *)
(* of them have the same name.                                             *)
C11_Original ==
  ~pass.paused => Range(pass.queue) = ReadyTasks(pass.opened)

(* No handler has reported an error or set paused, no gate has put a task  *)
(* in error, every handler's module loads, and no task came with a status  *)
(* the engine does not take further (a completed task has run here).       *)
CleanRun(tasks) ==
  \A p \in Paths(tasks) :
    LET t == TaskAt(tasks, p) IN
    /\ t.errorMsg = Undef
    /\ t.handler # "missing"
    /\ t.status \in {"waiting", "open", "completed"}
    /\ t.status = "completed" => t.handlerExecuted # Undef

(* C12, as stated: when execute returns after a run in which no handler    *)
(* reported an error or set paused and no gate put a task in error, the    *)
(* instance and every task are completed.                                  *)
C12_Original ==
  (fresh /\ ret.inst /\ updates = 0 /\ pending = {} /\ CleanRun(wf.tasks)) =>
    /\ wf.status = "completed"
    /\ \A p \in Paths(wf.tasks) : StatusAt(wf.tasks, p) = "completed"

(* The calls of execute and update that have called back. *)
CallsReturned == IF pc = "returned" THEN updates + 1 ELSE updates

(* The tasks the scheduler has still to queue. *)
Unqueued(tasks) ==
  Cardinality({ p \in Paths(tasks) : StatusAt(tasks, p) \in {Undef, "waiting", "open"} })

(* A bound on the steps the engine has left in the current call: a pass    *)
(* that queues tasks takes them out of Unqueued, a report takes a handler  *)
(* out of pending, and the rest follows the order of pc.                   *)
StepsLeft ==
  4 * Unqueued(wf.tasks) + Cardinality(pending)
    + (CASE pc = "start" -> 4
         [] pc = "batch" -> 3
         [] pc = "saveA" -> 2
         [] pc \in {"saveB", "saveC"} -> 1
         [] OTHER -> 0)

C14_Original ==
  (fresh /\ ret.inst) => pending = {}

(* C15, as stated: after n successful saves of an id the store holds n     *)
(* historical records of it.                                               *)
C15_Original ==
  Len(dir.files) = Len(dir.log)

(* The save that loadInstance(id, rewind) is to return after n saves. *)
SaveNumber(n, rewind) == IF rewind >= n THEN 1 ELSE n - rewind

(* C16, as stated: after n successful saves, loadInstance(id, rewind)      *)
(* returns what save number n - rewind wrote, and what the first save      *)
(* wrote when rewind >= n.                                                 *)
C16_Original ==
  \A rewind \in 0..(MaxSaves + 1) :
    Len(dir.log) >= 1 =>
      fileLoadInstance(dir, rewind)
        = [err |-> FALSE, inst |-> dir.log[SaveNumber(Len(dir.log), rewind)]]

(* C17: an update of an instance stored as completed reports the "already  *)
(* completed" error through the callback, merges and executes nothing, and *)
(* leaves the store, current record and history, as it was.                *)
C17_UpdateOfCompletedIsRefused ==
  [][(updates' = updates + 1 /\ store.cur.status = "completed") =>
       /\ ret' = [err |-> "completed", inst |-> FALSE]
       /\ callbacks' = callbacks + 1
       /\ store' = store /\ dir' = dir
       /\ wf' = wf /\ pc' = "returned" /\ pending' = pending /\ pass' = pass]_vars

C17_Witness ==
  /\ updates = 1
  /\ ret.err = "completed"
  /\ store.cur.status = "completed"
  /\ store.n >= 2

(* p comes before q in depth-first insertion order: p is an ancestor of q, *)
(* or the two part at a mapping where p takes the earlier key.             *)
Before(p, q) ==
  \/ IsDescendant(q, p)
  \/ \E k \in 1..Len(p) :
       /\ k <= Len(q)
       /\ SubSeq(p, 1, k - 1) = SubSeq(q, 1, k - 1)
       /\ p[k] < q[k]

Named(tasks, name) == {p \in Paths(tasks) : TaskAt(tasks, p).name = name}

(* after is before with one bundle entry merged as C18 says: nothing       *)
(* changes when no task has the name; otherwise the first task of the name *)
(* takes parameters, status, gates and children from the entry, is        *)
(* stamped timeCompleted and keeps its other fields, and every task        *)
(* outside that task's subtree stays as it is (an ancestor of it has the   *)
(* changed subtree among its children).                                    *)
MergedOne(before, entry, after) ==
  LET hits == Named(before, entry.name) IN
  IF hits = {} THEN after = before
  ELSE
    LET p == CHOOSE h \in hits : \A q \in hits \ {h} : Before(h, q)
        outside == {q \in Paths(before) : q # p /\ ~IsDescendant(q, p)}
    IN /\ Paths(after) =
            outside \cup {p} \cup {p \o c : c \in Paths(Children(entry.task))}
       /\ TaskAt(after, p) =
            [TaskAt(before, p) EXCEPT
               !.parameters = entry.task.parameters,
               !.status = entry.task.status,
               !.errorIf = entry.task.errorIf,
               !.skipIf = entry.task.skipIf,
               !.hasTasks = entry.task.hasTasks,
               !.tasks = entry.task.tasks,
               !.timeCompleted = Now]
       /\ \A q \in outside :
            [TaskAt(after, q) EXCEPT !.tasks = <<>>]
              = [TaskAt(before, q) EXCEPT !.tasks = <<>>]

(* C18: for each name of the bundle, in turn, the merge of an update       *)
(* changes only the first task of that name in depth-first insertion       *)
(* order, replacing its parameters, status, errorIf, skipIf and child      *)
(* tasks and stamping timeCompleted; every other task is unchanged, and a name no task has changes    *)
(* nothing.                                                                *)
C18_MergeTouchesFirstNamedOnly ==
  pc = "merged" =>
    /\ wf = mergeTasks(store.cur, injected)
    /\ \A i \in 1..Len(injected) :
         MergedOne(mergeTasks(store.cur, SubSeq(injected, 1, i - 1)).tasks,
                   injected[i],
                   mergeTasks(store.cur, SubSeq(injected, 1, i)).tasks)

(* A bundle of two names has been merged: the first entry went into the   *)
(* first of two tasks of one name and gave it a child, the other task of   *)
(* that name is as it was, and the second entry found a task too.          *)
C18_Witness ==
  /\ pc = "merged" /\ Len(injected) = 2
  /\ Named(store.cur.tasks, injected[2].name) # {}
  /\ injected[1].task.hasTasks
  /\ \E p \in Paths(wf.tasks) : \E q \in Paths(wf.tasks) :
       /\ Before(p, q) /\ ~IsDescendant(q, p)
       /\ TaskAt(wf.tasks, p).name = injected[1].name
       /\ TaskAt(wf.tasks, q).name = injected[1].name
       /\ TaskAt(wf.tasks, p).parameters = <<>>
       /\ TaskAt(wf.tasks, p).hasTasks
       /\ TaskAt(wf.tasks, q).parameters = Given

AllCompleted(tasks) ==
  tasks # <<>> /\ \A p \in Paths(tasks) : StatusAt(tasks, p) = "completed"

(* execute has returned from a single pass over an instance whose every    *)
(* task was completed when it came in.                                     *)
ExecutedCompleted ==
  /\ pc = "returned" /\ updates = 0
  /\ pass.saves = 1
  /\ AllCompleted(pass.before)

(* C19, as stated: execute on an instance whose every task is completed    *)
(* adds no historical record to the store (it saves at most the current    *)
(* record of a new id) and changes no task status.                         *)
C19_Original ==
  ExecutedCompleted => (store.n <= 1 /\ wf.tasks = pass.before)

(* C20, as stated: when execute has returned, the object the caller passed *)
(* in is as it was before the call; of the caller's object the model keeps *)
(* the environment, which a definition does not have.                      *)
C20_Original ==
  (pc = "returned" /\ updates = 0) => caller.environment = Undef

(* C21, as stated: once execute has assigned them, the instance keeps the  *)
(* id and the environment of its first execution through every update      *)
(* (execute wrote that environment into the caller's object too).          *)
C21_Original ==
  pc # "start" => (wf.id = "uuid" /\ wf.environment = caller.environment)

(* C22, as stated: from validation on, every task of the tree has a status *)
(* of the legal set, whatever status it came in with.                      *)
C22_Original ==
  pc # "start" => \A p \in Paths(wf.tasks) : StatusAt(wf.tasks, p) \in LegalStatus

(* One edge of waiting -> open -> executing -> (completed | paused | error). *)
StatusEdge(s, t) ==
  \/ s = "waiting" /\ t = "open"
  \/ s = "open" /\ t = "executing"
  \/ s = "executing" /\ t \in {"completed", "paused", "error"}

(* t is s or comes after s on that path. *)
RECURSIVE StatusAlong(_, _)
StatusAlong(s, t) ==
  \/ s = t
  \/ \E m \in LegalStatus : StatusEdge(s, m) /\ StatusAlong(m, t)

C24_FailedSaveAbortsPass ==
  [][(pc = "saveA" /\ pc' # "saveA" /\ store' = store) =>
       /\ ret' = [err |-> "save", inst |-> TRUE]
       /\ callbacks' = callbacks + 1
       /\ pc' = "returned"
       /\ wf' = wf /\ pending' = pending /\ pass' = pass]_vars

(* The first save of a call failed: nothing is stored, every task is still *)
(* waiting and the post workflow task has not been touched.                *)
C24_Witness ==
  /\ pc = "returned" /\ ret.err = "save"
  /\ pass = NoPass /\ ~store.saved
  /\ wf.post = Hook
  /\ \A p \in Paths(wf.tasks) : StatusAt(wf.tasks, p) = "waiting"

(* C25, as stated: when execute returns with anything but a save error, a  *)
(* post workflow task of the instance has been run, also when a handler    *)
(* reported an error or a task is paused.                                  *)
C25_Original ==
  (pc = "returned" /\ updates = 0 /\ ret.err # "save" /\ wf.post # <<>>) =>
    wf.post[1].handlerExecuted = "true"

(* Whether a value is a text that holds the reference. *)
HasRef(value, ref) ==
  value.t = "string" /\ \E i \in 1..Len(value.s) : value.s[i] = ref

(* The paths of the tasks that the current pass took from open to queued    *)
(* and whose parameter log held the reference when the pass opened them.    *)
QueuedWithRef(ref) ==
  IF pass = NoPass THEN {}
  ELSE { p \in Paths(pass.opened) :
           /\ StatusAt(pass.opened, p) = "open"
           /\ StatusAt(pass.queued, p) = "executing"
           /\ TaskAt(pass.opened, p).parameters # <<>>
           /\ HasRef(TaskAt(pass.opened, p).parameters[1].log, ref) }

(* A queued task's parameter log, as its handler receives it. *)
QueuedLog(p) == TaskAt(pass.queued, p).parameters[1].log

(* C26: a reference whose path does not resolve in the instance is         *)
(* replaced by null when its task is queued: the log the handler receives  *)
(* no longer holds the reference, and is null when the reference was the   *)
(* whole value.                                                            *)
C26_Original ==
  \A p \in QueuedWithRef(RefNone) :
    /\ ~HasRef(QueuedLog(p), RefNone)
    /\ TaskAt(pass.opened, p).parameters[1].log = JsString(<<RefNone>>)
         => QueuedLog(p) = JsNull

(* A queued task's parameter log, as the pass found it when it opened the  *)
(* task.                                                                   *)
OpenedLog(p) == TaskAt(pass.opened, p).parameters[1].log

(* C27: the expansion of $[environment.HOME]: a log that is the reference  *)
(* alone becomes the value of HOME, and the log val=$[environment.HOME]    *)
(* becomes val= followed by the value of HOME, no character added or       *)
(* removed.                                                                *)
C27_Original ==
  \A p \in QueuedWithRef(RefHome) :
    /\ OpenedLog(p) = JsString(<<RefHome>>)
         => QueuedLog(p) = JsString(Home(wf.environment))
    /\ OpenedLog(p) = JsString(<<"v", "a", "l", "=", RefHome>>)
         => QueuedLog(p) = JsString(<<"v", "a", "l", "=">> \o Home(wf.environment))

(* C28: a task whose log is the reference to a.parameters.x alone receives *)
(* in its log the value that a.parameters.x has in the instance when the   *)
(* task is queued (null when there is none), whatever a's handler wrote    *)
(* there in an earlier batch.                                              *)
C28_Original ==
  \A p \in QueuedWithRef(RefX) :
    OpenedLog(p) = JsString(<<RefX>>)
      => LET x == getData([wf EXCEPT !.tasks = pass.opened], RefX)
         IN QueuedLog(p) = IF x = JsUndefined THEN JsNull ELSE x

(* The records of an instance id in the store: the current record and the  *)
(* historical records that were saved for that id.                         *)
RecordsOf(d, id) ==
  IF d.type = "file" THEN {f \in d.files : f.data \in DirInstances /\ f.data.id = id}
  ELSE {w \in d.instances : w.id = id}
       \cup {d.history[i] : i \in {j \in 1..Len(d.history) : d.history[j].data.id = id}}

(* No loadInstance of the id succeeds, whatever the rewind. *)
NoLoad(d, id) ==
  \A rewind \in 0..(MaxSaves + 1) : \A loaded \in storeLoadInstance(d, id, rewind) : loaded.err

(* C29: a deleteInstance(id) that succeeds leaves no loadInstance(id, k)   *)
(* that succeeds, and leaves the records of every other id as they were.   *)
C29_Original ==
  [][(dir'.last.op = "deleteInstance" /\ ~dir'.last.err) =>
       /\ NoLoad(dir', dir'.last.id)
       /\ \A id \in Ids \ {dir'.last.id} : RecordsOf(dir', id) = RecordsOf(dir, id)]_vars

(* C30: deleteAll leaves no record of any instance id, current or          *)
(* historical, so that no loadInstance succeeds, and getDefinition(name)   *)
(* gives for every name what it gave before.                               *)
C30_DeleteAllKeepsDefinitions ==
  [][dir'.last.op = "deleteAll" =>
       /\ \A id \in Ids : RecordsOf(dir', id) = {} /\ NoLoad(dir', id)
       /\ \A name \in DefNames :
            storeGetDefinition(dir', name) = storeGetDefinition(dir, name)]_vars

(* deleteAll has removed the records of at least three saves and a saved   *)
(* definition is still there.                                              *)
C30_Witness ==
  /\ dir.last.op = "deleteAll"
  /\ dir.last.count >= 3
  /\ dir.n = 3
  /\ \E name \in DefNames : ~storeGetDefinition(dir, name).err

(* C31: a saveDefinition(d) is followed by a store in which                *)
(* getDefinition(d.name) gives exactly d, whatever was saved under that    *)
(* name before.                                                            *)
C31_Original ==
  [][\A workflowDef \in SavedDefinitions :
       DirSaveDefinition(workflowDef) =>
         storeGetDefinition(dir', workflowDef.name) = [err |-> FALSE, def |-> <<workflowDef>>]]_vars

(* Both times are there and the first is not before the second. *)
NotBefore(later, earlier) == later # NoTime /\ earlier # NoTime /\ later >= earlier

(* C32: in every state after validation, every task of the main tree that  *)
(* was handed to executeTask has timeStarted >= timeOpened, and every task  *)
(* in status completed has timeCompleted >= timeStarted.                   *)
C32_Original ==
  pc # "start" =>
    \A p \in Paths(wf.tasks) :
      LET t == TaskAt(wf.tasks, p) IN
      /\ t.timeStarted # NoTime => NotBefore(t.timeStarted, t.timeOpened)
      /\ t.status = "completed" => NotBefore(t.timeCompleted, t.timeStarted)

(* The tree of a batch after the reports made so far, computed from the    *)
(* tree the batch was started on by taking the reports in the order of     *)
(* the queue, whatever the order they came in.                             *)
RECURSIVE InQueueOrder(_, _, _)
InQueueOrder(tasks, i, reported) ==
  IF i > Len(pass.queue) THEN tasks
  ELSE
    LET here == {r \in reported : r.path = pass.queue[i]} IN
    IF here = {} THEN InQueueOrder(tasks, i + 1, reported)
    ELSE LET r == CHOOSE x \in here : TRUE IN
         InQueueOrder(SetAt(tasks, r.path, HandlerDone(TaskAt(tasks, r.path), r.outcome)),
                      i + 1, reported)

BatchTasks ==
  InQueueOrder(RunQueue(pass.queued, pass.queue, 1, {}, FALSE).tasks, 1, pass.reported)

(* A batch is live or has ended without an error. *)
BatchWithoutError == pc \in {"batch", "saveA"} /\ pass.queue # <<>>

(* C33: while a batch has had no error, the tree is the one that the       *)
(* reports made so far give in any one order, and the handlers still to    *)
(* report are the started ones without a report; the pass after the batch  *)
(* opens and queues what that tree gives, whatever the order of the        *)
(* reports was.                                                            *)
C33_BatchesIndependentOfReportOrder ==
  /\ [](BatchWithoutError =>
         /\ wf.tasks = BatchTasks
         /\ pending = RunQueue(pass.queued, pass.queue, 1, {}, FALSE).started
                        \ {r.path : r \in pass.reported})
  /\ [][(BatchWithoutError /\ pc = "saveA" /\ store'.n = store.n + 1) =>
          LET opened == openTasks(BatchTasks)
              obj == getTasksByStatus(opened, "open")
          IN IF Len(getTasksByStatus(BatchTasks, "paused")) > 0
             THEN pass'.opened = BatchTasks /\ pass'.queue = <<>>
             ELSE /\ pass'.opened = opened
                  /\ pass'.queue = Enqueue(opened, obj, 1, <<>>).queue]_vars

(* A batch of two handlers has ended without an error, one handler having  *)
(* paused its task and the other completed it.                             *)
C33_Witness ==
  /\ BatchWithoutError /\ pc = "saveA"
  /\ Cardinality(pass.reported) >= 2
  /\ \E r \in pass.reported : r.outcome = "paused"
  /\ \E r \in pass.reported : r.outcome = "ok"

(* C34: whenever execute or update has called back with an error, it has   *)
(* handed the instance to the caller as well.                              *)
C34_Original == (pc = "returned" /\ ret.err # "none") => ret.inst

(* C35: whenever execute or update has returned the instance, a task of    *)
(* the main tree in status error means that the returned instance and the  *)
(* stored one have status error.                                           *)
C35_Original ==
  (pc = "returned" /\ fresh /\ ret.inst) =>
    ((\E p \in Paths(wf.tasks) : StatusAt(wf.tasks, p) = "error")
       => wf.status = "error" /\ store.cur.status = "error")

(* C36: the record of every save made by a call of execute on a definition *)
(* without a task in status executing, before any update, holds no task    *)
(* of the main tree in status executing.                                   *)
C36_Original ==
  (store.saved /\ updates = 0) =>
    \A p \in Paths(store.cur.tasks) : StatusAt(store.cur.tasks, p) # "executing"

(* C37: a task of the main tree whose handler was started is not started   *)
(* again, in the same call or a later one, unless an update has injected   *)
(* the task since; so its handler is invoked at most once.                 *)
C37_HandlerStartedOnce ==
  [][\A p \in pending' \ pending : \A r \in ran : r.path # p]_vars

(* A handler was started in the first call, an update that did not inject  *)
(* its task followed, and the call of that update started another handler  *)
(* and has returned.                                                       *)
C37_Witness ==
  /\ pc = "returned" /\ updates = 1
  /\ \E r \in ran : r.call = 0
  /\ \E r \in ran : r.call = 1

(* C38: when a call returns an instance without error, the current record  *)
(* of the store has the status of the returned instance and the status of  *)
(* each of its tasks, the pre workflow and post workflow tasks included.   *)
HookStatus(hook) == IF hook = <<>> THEN Undef ELSE hook[1].status

C38_Original ==
  (pc = "returned" /\ fresh /\ ret.err = "none" /\ ret.inst) =>
    /\ store.saved
    /\ store.cur.status = wf.status
    /\ Paths(store.cur.tasks) = Paths(wf.tasks)
    /\ \A p \in Paths(wf.tasks) : StatusAt(store.cur.tasks, p) = StatusAt(wf.tasks, p)
    /\ HookStatus(store.cur.pre) = HookStatus(wf.pre)
    /\ HookStatus(store.cur.post) = HookStatus(wf.post)

(* C39: a save of the id leaves every historical record that exists for   *)
(* the id in place, with its name and its content, also when the clock has *)
(* not advanced since the save before.                                     *)
C39_Original ==
  [][\A i \in 1..Len(dir.files) :
       \E j \in 1..Len(dir'.files) : dir'.files[j] = dir.files[i]]_vars

(* C40, as stated: a task that is open when the queue of a pass is built,  *)
(* has no descendant that is not completed and has an errorIf that         *)
(* getBoolean takes to true, is in error with an errorMsg after the pass,  *)
(* its handler not invoked; the instance is in error, and is stored so     *)
(* when the call has returned; whatever its skipIf and ignoreError.        *)
RunnableTask(tasks, p) ==
  /\ StatusAt(tasks, p) = "open"
  /\ \A q \in Descendants(tasks, p) : StatusAt(tasks, q) = "completed"

ErrorGated(tasks, p) ==
  TaskAt(tasks, p).errorIf # Undef /\ getBoolean(TaskAt(tasks, p).errorIf)

EndsInError(p) ==
  /\ StatusAt(wf.tasks, p) = "error"
  /\ TaskAt(wf.tasks, p).errorMsg # Undef
  /\ TaskAt(wf.tasks, p).handlerExecuted = "false"
  /\ p \notin pending \cup pass.invoked
  /\ wf.status = "error"
  /\ pc \in {"saveB", "returned"}
  /\ pc = "returned" =>
       /\ ret = [err |-> "handler", inst |-> TRUE]
       /\ store.cur.status = "error"
       /\ StatusAt(store.cur.tasks, p) = "error"

C40_Original ==
  (pass # NoPass /\ ~pass.paused) =>
    \A p \in Paths(pass.opened) :
      (RunnableTask(pass.opened, p) /\ ErrorGated(pass.opened, p)) => EndsInError(p)

====
